---- MODULE Spec2Model ----
(***************************************************************************)
(* A model of the host side of the hypervisor (vmrun/src/kvmvm.rs), of the *)
(* memory map it hands to the guest (vmsyscall/src/memory_map.rs) and of   *)
(* the guest kernel's bring-up and loader (kernel/src/arch/x86_64/mod.rs). *)
(*                                                                         *)
(* Frame numbers, addresses and sizes are natural numbers far below 2^64,  *)
(* so the u64 arithmetic of the source never wraps inside the bounds.      *)
(***************************************************************************)
EXTENDS Integers, Sequences, FiniteSets, TLC

VARIABLES
    memory_map,   \* MemoryMap { entries, next_entry_index }
    map_op,       \* the last memory-map call: its name, its argument, whether it returned
    map_calls,    \* number of memory-map calls made so far
    userspace_mem_regions,  \* KvmVm.userspace_mem_regions
    host_bytes,   \* host memory: the addresses that hold a non-zero byte, with the byte
    vm_op,        \* the last call on the KvmVm: its name, its arguments, its result
    syscall_page, \* what the shared hypercall page holds
    stdio,        \* the write_all calls made on the host's stdout and stderr
    frame_allocator,  \* the guest's BootInfoFrameAllocator and the frames it handed out
    page_range,   \* a PageRange or PageRangeInclusive and the pages it yielded
    pc,           \* where each thread of the guest kernel stands
    locals,       \* the local variables of each thread of the guest kernel
    page_table,   \* the guest's page tables: the tables that exist, the pages mapped
    NEXT_MMAP,    \* static mut NEXT_MMAP
    FRAME_ALLOCATOR,  \* static mut FRAME_ALLOCATOR: Option<BootInfoFrameAllocator>
    MAPPER,       \* static mut MAPPER: Option<OffsetPageTable>
    machine       \* what bring-up set up: descriptor tables, MSRs, heap, TSS, stack pointer

mapVars == <<memory_map, map_op, map_calls>>
vmVars == <<userspace_mem_regions, host_bytes, vm_op>>
syscallVars == <<syscall_page, stdio>>
guestVars == <<frame_allocator, page_range>>
kernelVars == <<pc, locals, page_table, NEXT_MMAP, FRAME_ALLOCATOR, MAPPER, machine>>

vars == <<memory_map, map_op, map_calls, userspace_mem_regions, host_bytes, vm_op,
          syscall_page, stdio, frame_allocator, page_range,
          pc, locals, page_table, NEXT_MMAP, FRAME_ALLOCATOR, MAPPER, machine>>

(***************************************************************************)
(* Bounds of the model.                                                    *)
(***************************************************************************)
\* Length of the entries array (MAX_MEMORY_MAP_SIZE).  The source fixes the
\* length at 64 (memory_map.rs:12); the model constructs shorter arrays so that
\* an array fills up within a few calls: of MapCapacity entries for the map
\* that SpecMap drives, of VmMapCapacity entries for the map of a KvmVm.
MapCapacity == 3
VmMapCapacity == 6
\* Frame numbers handed to the memory-map calls range over 0..MaxFrame.
MaxFrame == 3
\* Number of memory-map calls in one run.
MaxMapCalls == 3

(***************************************************************************)
(* memory_map.rs: regions and frame ranges                                 *)
(***************************************************************************)
Usable == "Usable"
Empty == "Empty"

\* MemoryRegion { range: FrameRange { start_frame_number, end_frame_number }, region_type }
MemoryRegion(s, e, t) ==
    [range |-> [start_frame_number |-> s, end_frame_number |-> e], region_type |-> t]

MemoryRegion_empty == MemoryRegion(0, 0, Empty)

\* MemoryMap::new, for an array of the given length.
MemoryMap_new(capacity) ==
    [entries |-> [i \in 1..capacity |-> MemoryRegion_empty],
     next_entry_index |-> 0]

\* The length of the entries array of the map m.
entries_len(m) == Len(m.entries)

is_empty(range) == range.start_frame_number = range.end_frame_number

\* Deref: the slice entries[0..next_entry_index], as 1-based indices.
Visible(m) == 1..m.next_entry_index

Min(S) == CHOOSE x \in S : \A y \in S : x <= y

(***************************************************************************)
(* MemoryMap::sort.  sort_unstable_by only asks whether the comparator     *)
(* answers Less; entries that are not Less either way may end in any       *)
(* order, so the result is a set of possible arrays.                       *)
(***************************************************************************)
sort_is_less(r1, r2) ==
    IF is_empty(r1.range) THEN FALSE
    ELSE IF is_empty(r2.range) THEN TRUE
    ELSE IF r1.range.start_frame_number = r2.range.start_frame_number
         THEN r1.range.end_frame_number < r2.range.end_frame_number
         ELSE r1.range.start_frame_number < r2.range.start_frame_number

first_zero_index(entries) ==
    LET zeros == {i \in DOMAIN entries : is_empty(entries[i].range)}
    IN  IF zeros = {} THEN -1 ELSE Min(zeros) - 1

\* Every order of the entries with indices S that the comparator accepts:
\* each next entry is one that no remaining entry is Less than.
RECURSIVE sorted_orders(_, _)
sorted_orders(entries, S) ==
    IF S = {} THEN {<<>>}
    ELSE LET firsts == {entries[i] : i \in {i \in S : \A j \in S : ~sort_is_less(entries[j], entries[i])}}
         IN  UNION {{<<v>> \o t : t \in sorted_orders(entries, S \ {CHOOSE i \in S : entries[i] = v})} :
                      v \in firsts}

sort(m) ==
    { [entries |-> s,
       next_entry_index |->
           IF first_zero_index(s) = -1 THEN m.next_entry_index ELSE first_zero_index(s)] :
      s \in sorted_orders(m.entries, DOMAIN m.entries) }

(***************************************************************************)
(* MemoryMap::add_region.  A call either returns (ok) or panics on the     *)
(* capacity assertion; the result carries the map as the call left it.     *)
(***************************************************************************)
\* A merge test that misses an entry ending exactly where the region starts.
add_region_merges_strict(last_region, region) ==
    /\ last_region.region_type = region.region_type
    /\ last_region.range.end_frame_number > region.range.start_frame_number
    /\ last_region.range.end_frame_number <= region.range.end_frame_number

add_region_merges(last_region, region) ==
    /\ last_region.region_type = region.region_type
    /\ last_region.range.end_frame_number >= region.range.start_frame_number
    /\ last_region.range.end_frame_number <= region.range.end_frame_number

\* An add_region that looks at the last visible entry only.
add_region_into_last(m, region) ==
    IF m.next_entry_index > 0 /\ add_region_merges(m.entries[m.next_entry_index], region)
    THEN {[ok |-> TRUE,
           m |-> [m EXCEPT !.entries[m.next_entry_index].range.end_frame_number =
                                region.range.end_frame_number]]}
    ELSE IF ~(m.next_entry_index < entries_len(m))
    THEN {[ok |-> FALSE, m |-> m]}
    ELSE {[ok |-> TRUE, m |-> s] :
            s \in sort([entries |-> [m.entries EXCEPT ![m.next_entry_index + 1] = region],
                        next_entry_index |-> m.next_entry_index + 1])}

add_region(m, region) ==
    LET hits == {i \in DOMAIN m.entries : add_region_merges(m.entries[i], region)}
    IN  IF hits # {}
        THEN {[ok |-> TRUE,
               m |-> [m EXCEPT !.entries[Min(hits)].range.end_frame_number =
                                    region.range.end_frame_number]]}
        ELSE IF ~(m.next_entry_index < entries_len(m))
        THEN {[ok |-> FALSE, m |-> m]}
        ELSE {[ok |-> TRUE, m |-> s] :
                s \in sort([entries |-> [m.entries EXCEPT ![m.next_entry_index + 1] = region],
                            next_entry_index |-> m.next_entry_index + 1])}

\* add_region on every outcome of an earlier call, a panic ending the sequence.
then_add_region(outcomes, region) ==
    UNION {IF x.ok THEN add_region(x.m, region) ELSE {x} : x \in outcomes}

(***************************************************************************)
(* MemoryMap::mark_allocated_region: the loop over the visible entries     *)
(* from index i on, with the (possibly trimmed) region.                    *)
(***************************************************************************)
with_start(region, s) == [region EXCEPT !.range.start_frame_number = s]
with_end(region, e) == [region EXCEPT !.range.end_frame_number = e]

\* A split whose back part starts where the region starts, not where it ends.
behind_r_from_start(r, region) == with_start(r, region.range.start_frame_number)

\* let mut behind_r = *r; behind_r.range.start_frame_number = region.range.end_frame_number
behind_r(r, region) == with_start(r, region.range.end_frame_number)

RECURSIVE mark_from(_, _, _)
mark_from(m, region0, i) ==
    IF i > m.next_entry_index
    THEN {[ok |-> FALSE, m |-> m]}          \* "is not a usable memory region"
    ELSE
    LET r == m.entries[i]
        same == r.region_type = region0.region_type
        inside == /\ same
                  /\ r.range.start_frame_number <= region0.range.start_frame_number
                  /\ r.range.end_frame_number >= region0.range.end_frame_number
        extends == /\ same
                   /\ r.range.start_frame_number <= region0.range.start_frame_number
                   /\ r.range.end_frame_number > region0.range.start_frame_number
                   /\ r.range.end_frame_number <= region0.range.end_frame_number
        region == IF extends THEN with_start(region0, r.range.end_frame_number) ELSE region0
        rs == r.range.start_frame_number
        re == r.range.end_frame_number
        s == region.range.start_frame_number
        e == region.range.end_frame_number
        set_r(x) == [m EXCEPT !.entries[i] = x]
    IN  IF inside THEN {[ok |-> TRUE, m |-> m]}
        ELSE IF s >= re \/ e <= rs THEN mark_from(m, region, i + 1)
        ELSE IF r.region_type # Usable THEN {[ok |-> FALSE, m |-> m]}
        ELSE IF s = rs
        THEN IF e < re
             THEN add_region(set_r(with_start(r, e)), region)
             ELSE {[ok |-> TRUE, m |-> set_r(region)]}
        ELSE IF s > rs
        THEN IF e < re
             THEN then_add_region(add_region(set_r(with_end(r, s)), behind_r(r, region)), region)
             ELSE add_region(set_r(with_end(r, s)), region)
        ELSE add_region(set_r(with_start(r, e)), region)

mark_allocated_region(m, region) == mark_from(m, region, 1)

\* MemoryMap::set_region_type_usable
set_region_type_usable(m, region_type) ==
    [m EXCEPT !.entries = [i \in DOMAIN m.entries |->
        IF i \in Visible(m) /\ m.entries[i].region_type = region_type
        THEN [m.entries[i] EXCEPT !.region_type = Usable]
        ELSE m.entries[i]]]

(***************************************************************************)
(* SpecMap: a memory map driven by arbitrary calls of its interface.       *)
(***************************************************************************)
MapKinds == {Usable, "Kernel", "App"}

\* add_region is given non-empty ranges (vm_userspace_mem_region_add adds the
\* frames of a slot of at least one page); mark_allocated_region is given
\* kinds other than Usable, with ranges that may be empty, as FrameRange::new
\* returns them for equal page-aligned addresses.
AddArgs ==
    {MemoryRegion(s, e, t) : s \in 0..MaxFrame, e \in 0..MaxFrame, t \in {Usable, "Kernel"}}
MarkArgs ==
    {MemoryRegion(s, e, t) : s \in 0..MaxFrame, e \in 0..MaxFrame, t \in MapKinds \ {Usable}}

NoCall == [name |-> "new", region |-> MemoryRegion_empty]

\* No KvmVm takes part in SpecMap.
NoVm ==
    /\ userspace_mem_regions = <<>>
    /\ host_bytes = <<>>
    /\ vm_op = [name |-> "none", returned |-> TRUE]
    /\ syscall_page = [kind |-> "none"]
    /\ stdio = <<>>

\* No guest kernel takes part in the specifications of the host.
NoGuest ==
    /\ frame_allocator = [name |-> "none"]
    /\ page_range = [name |-> "none"]

\* The guest kernel is not running.
NoKernel ==
    /\ pc = <<>>
    /\ locals = <<>>
    /\ page_table = [name |-> "none"]
    /\ NEXT_MMAP = 0
    /\ FRAME_ALLOCATOR = [some |-> FALSE]
    /\ MAPPER = [some |-> FALSE]
    /\ machine = [name |-> "none"]

\* The call before the one that map_op records.
Before == [name |-> map_op.name, region |-> map_op.region]

InitMap ==
    /\ memory_map = MemoryMap_new(MapCapacity)
    /\ map_op = [name |-> "new", region |-> MemoryRegion_empty, ok |-> TRUE, before |-> NoCall]
    /\ map_calls = 0
    /\ NoVm
    /\ NoGuest
    /\ NoKernel

\* A panic ends the run.
MapCallable == map_op.ok /\ map_calls < MaxMapCalls

AddRegion ==
    /\ MapCallable
    /\ \E region \in {a \in AddArgs : a.range.start_frame_number < a.range.end_frame_number} :
       \E x \in add_region(memory_map, region) :
          /\ memory_map' = x.m
          /\ map_op' = [name |-> "add_region", region |-> region, ok |-> x.ok,
                        before |-> Before]
    /\ map_calls' = map_calls + 1
    /\ UNCHANGED <<vmVars, syscallVars, guestVars, kernelVars>>

MarkAllocatedRegion ==
    /\ MapCallable
    /\ \E region \in {a \in MarkArgs : a.range.start_frame_number <= a.range.end_frame_number} :
       \E x \in mark_allocated_region(memory_map, region) :
          /\ memory_map' = x.m
          /\ map_op' = [name |-> "mark_allocated_region", region |-> region, ok |-> x.ok,
                        before |-> Before]
    /\ map_calls' = map_calls + 1
    /\ UNCHANGED <<vmVars, syscallVars, guestVars, kernelVars>>

Sort ==
    /\ map_op.ok
    /\ map_op.name # "sort"
    /\ \E s \in sort(memory_map) : memory_map' = s
    /\ map_op' = [name |-> "sort", region |-> MemoryRegion_empty, ok |-> TRUE,
                  before |-> Before]
    /\ UNCHANGED <<map_calls, vmVars, syscallVars, guestVars, kernelVars>>

NextMap == AddRegion \/ MarkAllocatedRegion \/ Sort

SpecMap == InitMap /\ [][NextMap]_vars

(***************************************************************************)
(* Frames, overlap and counting, for the statements about the memory map.  *)
(***************************************************************************)
FramesOf(range) == range.start_frame_number..(range.end_frame_number - 1)
Frames(m) == UNION {FramesOf(m.entries[i].range) : i \in Visible(m)}
Overlap(a, b) == FramesOf(a.range) \cap FramesOf(b.range) # {}
Count(m, x) == Cardinality({i \in Visible(m) : m.entries[i] = x})
AllRegions(m) == {m.entries[i] : i \in Visible(m)}

MarkReturned == map_op'.name = "mark_allocated_region" /\ map_op'.ok

\* The visible regions are non-empty and pairwise disjoint, and the rest of the
\* array holds only MemoryRegion::empty().
WellFormed(m) ==
    /\ \A i \in Visible(m) :
          m.entries[i].range.start_frame_number < m.entries[i].range.end_frame_number
    /\ \A i, j \in Visible(m) : i # j => ~Overlap(m.entries[i], m.entries[j])
    /\ \A i \in DOMAIN m.entries : i \notin Visible(m) => m.entries[i] = MemoryRegion_empty

(***************************************************************************)
(* C1.  After any sequence of add_region and mark_allocated_region calls   *)
(* that return, followed by sort, no two regions in [0, next_index) whose  *)
(* kind is not Usable overlap.                                             *)
(* The code breaks it: mark_allocated_region looks only at the first       *)
(* region that the new one overlaps, so a region that starts in a Usable   *)
(* region and runs on into a Kernel region is recorded over the latter.    *)
(***************************************************************************)
C1_NoNonUsableOverlapAfterSort ==
    map_op.name = "sort" =>
        \A i, j \in Visible(memory_map) :
            (/\ i < j
             /\ memory_map.entries[i].region_type # Usable
             /\ memory_map.entries[j].region_type # Usable)
            => ~Overlap(memory_map.entries[i], memory_map.entries[j])

(***************************************************************************)
(* C2.  Every mark_allocated_region call that returns leaves the set of    *)
(* frames covered by the regions of the map as it was.                     *)
(* The code breaks it: a region reaching past the Usable region it starts  *)
(* in adds frames, and a merge in add_region can drop frames.              *)
(***************************************************************************)
C2_MarkPreservesFrames ==
    [][MarkReturned => Frames(memory_map') = Frames(memory_map)]_vars

(***************************************************************************)
(* C3.  After any sequence of calls followed by sort, the entries in       *)
(* [0, next_index) have non-empty ranges and are in non-decreasing order   *)
(* of (start_frame, end_frame), and every entry at an index >= next_index  *)
(* has an empty range.                                                     *)
(* The code breaks the last part once no entry of the array is empty:      *)
(* sort then leaves next_entry_index as it was.                            *)
(***************************************************************************)
C3_SortedShapeAfterSort ==
    map_op.name = "sort" =>
        /\ \A i \in Visible(memory_map) : ~is_empty(memory_map.entries[i].range)
        /\ \A i, j \in Visible(memory_map) :
              i < j => ~sort_is_less(memory_map.entries[j], memory_map.entries[i])
        /\ \A i \in DOMAIN memory_map.entries :
              i > memory_map.next_entry_index => is_empty(memory_map.entries[i].range)

(***************************************************************************)
(* C4.  When r (kind k, not Usable) lies strictly inside one Usable region *)
(* [a, b), mark_allocated_region(r) replaces that region by exactly the    *)
(* three regions Usable [a, r.start), k [r.start, r.end), Usable           *)
(* [r.end, b) and leaves every other region unchanged.                     *)
(***************************************************************************)
StrictlyInside(m, i, region) ==
    /\ i \in Visible(m)
    /\ m.entries[i].region_type = Usable
    /\ m.entries[i].range.start_frame_number < region.range.start_frame_number
    /\ region.range.start_frame_number < region.range.end_frame_number
    /\ region.range.end_frame_number < m.entries[i].range.end_frame_number

SplitOf(old, region) ==
    {MemoryRegion(old.range.start_frame_number, region.range.start_frame_number, Usable),
     region,
     MemoryRegion(region.range.end_frame_number, old.range.end_frame_number, Usable)}

\* m2 holds the regions of m with entry i replaced by its three parts.
IsSplit(m, m2, i, region) ==
    \A x \in AllRegions(m) \cup AllRegions(m2) \cup SplitOf(m.entries[i], region) :
        Count(m2, x) = Count(m, x)
                       - (IF x = m.entries[i] THEN 1 ELSE 0)
                       + (IF x \in SplitOf(m.entries[i], region) THEN 1 ELSE 0)

AdjacentAdds ==
    /\ map_op.name = "add_region" /\ map_op.ok
    /\ map_op'.name = "add_region" /\ map_op'.ok
    /\ map_op'.region.region_type = map_op.region.region_type
    /\ map_op'.region.range.start_frame_number = map_op.region.range.end_frame_number

Joined == MemoryRegion(map_op.region.range.start_frame_number,
                       map_op'.region.range.end_frame_number,
                       map_op.region.region_type)

\* The claim as stated, whatever the map held before the two calls.
C5_AdjacentAddsCoalesce ==
    [][AdjacentAdds
          => /\ memory_map'.next_entry_index = memory_map.next_entry_index
             /\ Count(memory_map', Joined) = 1]_vars

\* The entries of kind k whose end_frame lies in [a, c]: those add_region extends.
MergeTargets(m, a, c, k) ==
    {i \in DOMAIN m.entries :
        /\ m.entries[i].region_type = k
        /\ m.entries[i].range.end_frame_number >= a
        /\ m.entries[i].range.end_frame_number <= c}

\* C5 as amended: when the first call left [a, b) as a region of the map and
\* the array holds no other entry of kind k whose end_frame lies in [a, c],
\* the second call turns that region into [a, c) and adds no entry.
C5_AdjacentAddsCoalesceAlone ==
    [][(/\ AdjacentAdds
        /\ \E i \in Visible(memory_map) :
              /\ memory_map.entries[i] = map_op.region
              /\ MergeTargets(memory_map, map_op.region.range.start_frame_number,
                              map_op'.region.range.end_frame_number,
                              map_op.region.region_type) = {i})
          => /\ memory_map'.next_entry_index = memory_map.next_entry_index
             /\ Count(memory_map', map_op.region) = 0
             /\ Count(memory_map', Joined) = 1]_vars

\* Usable [1, 2) was added to an empty map, then Usable [2, 3): one region [1, 3).
C5_Witness ==
    /\ map_calls = 2
    /\ map_op.before = [name |-> "add_region", region |-> MemoryRegion(1, 2, Usable)]
    /\ map_op.name = "add_region" /\ map_op.ok
    /\ map_op.region = MemoryRegion(2, 3, Usable)
    /\ memory_map.next_entry_index = 1
    /\ memory_map.entries[1] = MemoryRegion(1, 3, Usable)

(***************************************************************************)
(* kvmvm.rs: the memory slots of a KvmVm                                   *)
(***************************************************************************)
PAGE_SIZE == 4096
DEFAULT_GUEST_PAGE_SIZE == 4096

\* Slot ids given to vm_userspace_mem_region_add range over 0..MaxSlotId.
MaxSlotId == 1
\* Slots start at the pages 0..MaxGuestPage.
MaxGuestPage == 2
\* Slots have 1..MaxSlotPages pages.
MaxSlotPages == 1
\* Number of free places among which mmap chooses the one for a new mapping.
MaxHostAreas == 1

Ok(v) == [ok |-> TRUE, val |-> v]
Err(kind) == [ok |-> FALSE, err |-> kind]

\* FrameRange::new: the end address is exclusive and above 0.
FrameRange_new(start_addr, end_addr) ==
    LET last_byte == end_addr - 1
    IN  [start_frame_number |-> start_addr \div PAGE_SIZE,
         end_frame_number |-> (last_byte \div PAGE_SIZE) + 1]

\* UserspaceMemRegion: region.slot, region.guest_phys_addr, region.memory_size, host_mem
UserspaceMemRegion(slot, guest_phys_addr, memory_size, host_mem) ==
    [slot |-> slot, guest_phys_addr |-> guest_phys_addr,
     memory_size |-> memory_size, host_mem |-> host_mem]

\* A range test that lets a slot through when it only touches the recorded one.
ranges_collide_strict(r, guest_paddr, npages, page_size) ==
    /\ guest_paddr < r.guest_phys_addr + r.memory_size
    /\ guest_paddr + npages * page_size > r.guest_phys_addr

\* The range test of vm_userspace_mem_region_add against the recorded slot r.
ranges_collide(r, guest_paddr, npages, page_size) ==
    /\ guest_paddr <= r.guest_phys_addr + r.memory_size
    /\ guest_paddr + npages * page_size >= r.guest_phys_addr

\* The error the loop over the recorded slots returns, or "none".
slot_conflict(regions, guest_paddr, slot, npages, page_size) ==
    LET hits == {i \in DOMAIN regions :
                    \/ regions[i].slot = slot
                    \/ ranges_collide(regions[i], guest_paddr, npages, page_size)}
    IN  IF hits = {} THEN "none"
        ELSE IF regions[Min(hits)].slot = slot
        THEN "MemRegionWithSlotAlreadyExists"
        ELSE "OverlappingUserspaceMemRegionExists"

\* The places where mmap may put a mapping of the given size: the host areas
\* that no recorded slot occupies.
HostArea(k) == 1048576 + k * (MaxSlotPages + 1) * PAGE_SIZE
mmap_results(regions, size) ==
    {Ok(HostArea(k)) : k \in {k \in 0..(MaxHostAreas + Len(regions) - 1) :
        \A i \in DOMAIN regions : regions[i].host_mem # HostArea(k)}}

\* vm_userspace_mem_region_add.  mm is what mmap returned, an address or an error;
\* ioctl_ok tells whether KVM_SET_USER_MEMORY_REGION succeeded.  The outcomes
\* carry the result, the slot list and the memory map; a panic does not return.
vm_userspace_mem_region_add(regions, map, guest_paddr, slot, npages, page_size, mm, ioctl_ok) ==
    LET conflict == slot_conflict(regions, guest_paddr, slot, npages, page_size)
        memory_size == npages * page_size
        fails(kind) == {[result |-> Err(kind), returned |-> TRUE,
                         regions |-> regions, map |-> map]}
    IN  IF conflict # "none" THEN fails(conflict)
        ELSE IF ~mm.ok THEN fails("MmapFailed")
        ELSE IF ~ioctl_ok THEN fails("KvmIoctl")
        ELSE {IF x.ok
              THEN [result |-> Ok("unit"), returned |-> TRUE, map |-> x.m,
                    regions |-> Append(regions,
                                  UserspaceMemRegion(slot, guest_paddr, memory_size, mm.val))]
              ELSE [result |-> Err("panic"), returned |-> FALSE,
                    regions |-> regions, map |-> x.m] :
              x \in add_region(map, [range |-> FrameRange_new(guest_paddr,
                                                              guest_paddr + memory_size),
                                     region_type |-> Usable])}

\* A test that also takes the first address behind the slot.
gpa_in_region_closed(region, gpa) ==
    /\ gpa >= region.guest_phys_addr
    /\ gpa <= region.guest_phys_addr + region.memory_size

\* The test of addr_gpa2hva; a recorded slot has memory_size > 0.
gpa_in_region(region, gpa) ==
    /\ gpa >= region.guest_phys_addr
    /\ gpa <= region.guest_phys_addr + region.memory_size - 1

addr_gpa2hva(regions, guest_phys_addr) ==
    LET hits == {i \in DOMAIN regions : gpa_in_region(regions[i], guest_phys_addr)}
    IN  IF hits = {} THEN Err("NoMappingForVirtualAddress")
        ELSE Ok(regions[Min(hits)].host_mem
                + (guest_phys_addr - regions[Min(hits)].guest_phys_addr))

(***************************************************************************)
(* SpecSlots: a KvmVm created without memory (vm_create(0)), to which      *)
(* slots are added and whose guest addresses are translated.               *)
(***************************************************************************)
InitSlots ==
    /\ memory_map = MemoryMap_new(VmMapCapacity)
    /\ map_op = [name |-> "new", region |-> MemoryRegion_empty, ok |-> TRUE, before |-> NoCall]
    /\ map_calls = 0
    /\ userspace_mem_regions = <<>>
    /\ host_bytes = <<>>
    /\ vm_op = [name |-> "vm_create", returned |-> TRUE]
    /\ syscall_page = [kind |-> "none"]
    /\ stdio = <<>>
    /\ NoGuest
    /\ NoKernel

AddSlot ==
    /\ vm_op.returned
    /\ \E slot \in 0..MaxSlotId, page \in 0..MaxGuestPage, npages \in 1..MaxSlotPages :
       \E mm \in mmap_results(userspace_mem_regions, npages * DEFAULT_GUEST_PAGE_SIZE)
                 \cup {Err("MmapFailed")},
          ioctl_ok \in BOOLEAN :
       \E x \in vm_userspace_mem_region_add(userspace_mem_regions, memory_map,
                    page * DEFAULT_GUEST_PAGE_SIZE, slot, npages,
                    DEFAULT_GUEST_PAGE_SIZE, mm, ioctl_ok) :
          /\ userspace_mem_regions' = x.regions
          /\ memory_map' = x.map
          /\ vm_op' = [name |-> "vm_userspace_mem_region_add",
                       guest_paddr |-> page * DEFAULT_GUEST_PAGE_SIZE,
                       slot |-> slot, npages |-> npages,
                       result |-> x.result, returned |-> x.returned]
    /\ UNCHANGED <<map_op, map_calls, host_bytes, syscallVars, guestVars, kernelVars>>

\* Addresses to translate: the page boundaries and the bytes next to them.
GpaProbes ==
    {a \in {page * DEFAULT_GUEST_PAGE_SIZE + d :
               page \in 0..(MaxGuestPage + MaxSlotPages + 1), d \in {-1, 0, 1}} : a >= 0}

AddrGpa2Hva ==
    /\ vm_op.returned
    /\ \E addr \in GpaProbes :
          vm_op' = [name |-> "addr_gpa2hva", guest_phys_addr |-> addr,
                    result |-> addr_gpa2hva(userspace_mem_regions, addr),
                    returned |-> TRUE]
    /\ UNCHANGED <<mapVars, userspace_mem_regions, host_bytes, syscallVars, guestVars, kernelVars>>

NextSlots == AddSlot \/ AddrGpa2Hva

SpecSlots == InitSlots /\ [][NextSlots]_vars

(***************************************************************************)
(* C6.  After any sequence of vm_userspace_mem_region_add calls the        *)
(* recorded slots have pairwise distinct ids and pairwise disjoint guest   *)
(* ranges; a call with an id already in use fails with                     *)
(* MemRegionWithSlotAlreadyExists, a call whose range overlaps a recorded  *)
(* slot fails with OverlappingUserspaceMemRegionExists, and a failing call *)
(* leaves the slot list and the memory map unchanged.                      *)
(***************************************************************************)
\* The half-open ranges [a, a + m) and [b, b + n) share an address.
RangesOverlap(a, m, b, n) == a < b + n /\ b < a + m

SlotsDistinctAndDisjoint(regions) ==
    \A i, j \in DOMAIN regions :
        i # j => /\ regions[i].slot # regions[j].slot
                 /\ ~RangesOverlap(regions[i].guest_phys_addr, regions[i].memory_size,
                                   regions[j].guest_phys_addr, regions[j].memory_size)

AddSlotCalled == vm_op'.name = "vm_userspace_mem_region_add"

CallSize == vm_op'.npages * DEFAULT_GUEST_PAGE_SIZE

\* The recorded slots with the id of the call, and those its range overlaps.
SameId == {i \in DOMAIN userspace_mem_regions : userspace_mem_regions[i].slot = vm_op'.slot}
Overlapped ==
    {i \in DOMAIN userspace_mem_regions :
        RangesOverlap(userspace_mem_regions[i].guest_phys_addr,
                      userspace_mem_regions[i].memory_size, vm_op'.guest_paddr, CallSize)}
\* Those its range overlaps or touches: the next byte behind one is the first of the other.
Touched ==
    {i \in DOMAIN userspace_mem_regions :
        \/ i \in Overlapped
        \/ userspace_mem_regions[i].guest_phys_addr + userspace_mem_regions[i].memory_size
              = vm_op'.guest_paddr
        \/ vm_op'.guest_paddr + CallSize = userspace_mem_regions[i].guest_phys_addr}

FailingCallChangesNothing ==
    (vm_op'.returned /\ ~vm_op'.result.ok)
        => /\ userspace_mem_regions' = userspace_mem_regions
           /\ memory_map' = memory_map

\* The claim as stated, the id deciding when a call breaks both rules.
C6_ErrorByRule ==
    [][AddSlotCalled
          => /\ SlotsDistinctAndDisjoint(userspace_mem_regions')
             /\ SameId # {} => vm_op'.result = Err("MemRegionWithSlotAlreadyExists")
             /\ (SameId = {} /\ Overlapped # {})
                   => vm_op'.result = Err("OverlappingUserspaceMemRegionExists")
             /\ FailingCallChangesNothing]_vars

\* C6 as amended: the slots stay distinct and disjoint; a call whose id is in
\* use, or whose range overlaps or touches a recorded slot, fails with the
\* error of the first recorded slot that has the id or that the range overlaps
\* or touches: MemRegionWithSlotAlreadyExists when that slot has the id,
\* OverlappingUserspaceMemRegionExists otherwise; a failing call leaves the
\* slot list and the memory map unchanged.
C6_ErrorByFirstConflictingSlot ==
    [][AddSlotCalled
          => /\ SlotsDistinctAndDisjoint(userspace_mem_regions')
             /\ (SameId \cup Touched # {})
                   => vm_op'.result =
                         Err(IF Min(SameId \cup Touched) \in SameId
                             THEN "MemRegionWithSlotAlreadyExists"
                             ELSE "OverlappingUserspaceMemRegionExists")
             /\ FailingCallChangesNothing]_vars

\* Two slots are recorded, and a call with the id of the second and a range
\* that overlaps the first has failed on the first.
C6_Witness ==
    /\ Len(userspace_mem_regions) = 2
    /\ vm_op.name = "vm_userspace_mem_region_add"
    /\ vm_op.slot = userspace_mem_regions[2].slot
    /\ vm_op.guest_paddr = userspace_mem_regions[1].guest_phys_addr
    /\ vm_op.result = Err("OverlappingUserspaceMemRegionExists")
    /\ memory_map.next_entry_index = 2

(***************************************************************************)
(* C7.  addr_gpa2hva(addr) returns host_mem + (addr - guest_phys_addr) of  *)
(* a recorded slot exactly when addr lies in the half-open guest range     *)
(* [guest_phys_addr, guest_phys_addr + memory_size) of that slot, and      *)
(* NoMappingForVirtualAddress for every addr that lies in no slot.         *)
(***************************************************************************)
SlotsHolding(addr) ==
    {i \in DOMAIN userspace_mem_regions :
        /\ userspace_mem_regions[i].guest_phys_addr <= addr
        /\ addr < userspace_mem_regions[i].guest_phys_addr + userspace_mem_regions[i].memory_size}

C7_TranslatesExactlyInsideSlots ==
    vm_op.name = "addr_gpa2hva" =>
        IF SlotsHolding(vm_op.guest_phys_addr) = {}
        THEN vm_op.result = Err("NoMappingForVirtualAddress")
        ELSE \A i \in SlotsHolding(vm_op.guest_phys_addr) :
                vm_op.result = Ok(userspace_mem_regions[i].host_mem
                                  + (vm_op.guest_phys_addr
                                     - userspace_mem_regions[i].guest_phys_addr))

\* The last byte of the second of two slots was translated, and the first
\* byte behind a slot would not be.
C7_Witness ==
    /\ Len(userspace_mem_regions) = 2
    /\ vm_op.name = "addr_gpa2hva"
    /\ vm_op.guest_phys_addr = userspace_mem_regions[2].guest_phys_addr
                               + userspace_mem_regions[2].memory_size - 1
    /\ vm_op.result = Ok(userspace_mem_regions[2].host_mem
                         + userspace_mem_regions[2].memory_size - 1)
    /\ SlotsHolding(vm_op.guest_phys_addr + 1) = {}

(***************************************************************************)
(* kvmvm.rs: host memory, vm_create and elf_load                           *)
(***************************************************************************)
SYSCALL_PHYS_ADDR == 4096
PML4_START == 36864
PDPTE_START == 40960
PDE_START == 45056
HIMEM_START == 1048576

\* Pages of the slot that vm_create adds.  The source asks for 2 GiB; the
\* model keeps the slot just large enough for the initial page tables.
VmPhyPages == 12
\* Program headers of a file.
MaxPhdrs == 2
\* file_size, mem_size and offset of a segment range over 0..Max.
MaxFileSize == 2
MaxMemSize == 2
MaxOffset == 1

\* The byte of host memory at address a: memory that mmap returned holds 0
\* wherever nothing else was written.
Byte(mem, a) == IF a \in DOMAIN mem THEN mem[a] ELSE 0

\* copy_from_slice, ptr::write: the bytes of the sequence go to dst, dst + 1, ...
mem_write(mem, dst, bytes) ==
    LET range == dst..(dst + Len(bytes) - 1)
        nonzero == {a \in range : bytes[a - dst + 1] # 0}
    IN  [a \in (DOMAIN mem \ range) \cup nonzero |->
            IF a \in range THEN bytes[a - dst + 1] ELSE mem[a]]

\* ptr::write_bytes(dst, 0, count)
mem_zero(mem, dst, count) ==
    [a \in DOMAIN mem \ (dst..(dst + count - 1)) |-> mem[a]]

\* Byte i of the little-endian u64 v, for v < 2^24.
u64_byte(v, i) == IF i < 3 THEN (v \div (256 ^ i)) % 256 ELSE 0

\* guest_pg_addr.write(page_tables): three tables of 512 u64 entries, all 0
\* but the first entry of each.
write_page_tables(mem, hva) ==
    LET entry(v) == [i \in 1..8 |-> u64_byte(v, i - 1)]
        cleared == mem_zero(mem, hva, 3 * 512 * 8)
    IN  mem_write(mem_write(mem_write(cleared,
            hva, entry(PDPTE_START + 7)),
            hva + 512 * 8, entry(PDE_START + 7)),
            hva + 2 * 512 * 8, entry(387))

\* vm_create(phy_pages) for phy_pages > 0 when every step succeeds: the slot 0
\* at address 0, frame 0 and the hypercall page marked, the page tables written.
vm_create(phy_pages, host_mem) ==
    LET added == vm_userspace_mem_region_add(<<>>, MemoryMap_new(VmMapCapacity), 0, 0,
                     phy_pages, DEFAULT_GUEST_PAGE_SIZE, Ok(host_mem), TRUE)
        zero_frame == UNION {mark_allocated_region(x.map,
                         [range |-> FrameRange_new(0, PAGE_SIZE),
                          region_type |-> "FrameZero"]) : x \in added}
        syscall_frame == UNION {mark_allocated_region(x.m,
                            [range |-> FrameRange_new(SYSCALL_PHYS_ADDR,
                                                      SYSCALL_PHYS_ADDR + PAGE_SIZE),
                             region_type |-> "InUse"]) : x \in zero_frame}
    IN  {[regions |-> a.regions, map |-> x.m,
          mem |-> write_page_tables(<<>>, addr_gpa2hva(a.regions, PML4_START).val)] :
         a \in added, x \in syscall_frame}

(***************************************************************************)
(* The files given to elf_load: their program headers and their bytes.     *)
(***************************************************************************)
ProgramHeader(type, offset, file_size, mem_size, physical_addr) ==
    [type |-> type, offset |-> offset, file_size |-> file_size, mem_size |-> mem_size,
     physical_addr |-> physical_addr, virtual_addr |-> physical_addr + HIMEM_START]

\* The bytes of the file, from offset 0 on.
ElfData == <<17, 0, 34, 51>>

\* Segments start on a page, inside a page, on the page tables, or on the
\* last byte of the slot.
ElfPhysAddrs ==
    {2 * PAGE_SIZE, 2 * PAGE_SIZE + 1, PML4_START, VmPhyPages * PAGE_SIZE - 1}

ElfHeaders ==
    {ProgramHeader("Load", o, f, m, p) :
        o \in 0..MaxOffset, f \in 0..MaxFileSize, m \in 0..MaxMemSize, p \in ElfPhysAddrs}
    \cup {ProgramHeader("Interp", 0, 0, 0, 0), ProgramHeader("Note", 0, 0, 0, 0)}

SegmentBytes(h) ==
    IF h.type = "Load" THEN h.physical_addr..(h.physical_addr + h.mem_size - 1) ELSE {}

\* The loadable segments of one file share no byte of memory.
ElfFiles ==
    {phdrs \in UNION {[1..n -> ElfHeaders] : n \in 0..MaxPhdrs} :
        \A i, j \in DOMAIN phdrs :
            i # j => SegmentBytes(phdrs[i]) \cap SegmentBytes(phdrs[j]) = {}}

\* The file: its program headers, its bytes, its entry point.
ElfFile(phdrs) ==
    [phdrs |-> phdrs, data |-> ElfData, entry_point |-> HIMEM_START + 2 * PAGE_SIZE]

(***************************************************************************)
(* KvmVm::elf_load.  An outcome carries the result, the memory map and the *)
(* host memory; the process does not return from a panic or a fault.       *)
(***************************************************************************)
align_down(addr, align) == addr - (addr % align)
align_up(addr, align) == align_down(addr + align - 1, align)

\* The frames marked for a segment: from the frame of its first byte to the
\* frame at the aligned-up address of its last byte.
segment_region(segment, page_size, region_type) ==
    [range |-> FrameRange_new(
                   align_down(segment.physical_addr, page_size),
                   align_up(segment.physical_addr + segment.mem_size - 1, page_size)),
     region_type |-> region_type]

\* The bytes [gpa, gpa + size) all lie in the slot that holds gpa.
slice_in_slot(regions, gpa, size) ==
    \E i \in DOMAIN regions :
        /\ gpa_in_region(regions[i], gpa)
        /\ \A j \in DOMAIN regions : gpa_in_region(regions[j], gpa) => i <= j
        /\ gpa + size <= regions[i].guest_phys_addr + regions[i].memory_size

returns(result, map, mem) == [result |-> result, returned |-> TRUE, map |-> map, mem |-> mem]
aborts(map, mem) == [result |-> Err("panic"), returned |-> FALSE, map |-> map, mem |-> mem]

RECURSIVE elf_load_from(_, _, _, _, _, _, _, _)
elf_load_from(regions, map, mem, elf, k, load_addr, region_type, page_size) ==
    IF k > Len(elf.phdrs)
    THEN IF load_addr = {}
         THEN {aborts(map, mem)}                    \* load_addr.unwrap()
         ELSE {returns(Ok(<<elf.entry_point, CHOOSE a \in load_addr : TRUE, Len(elf.phdrs)>>),
                       map, mem)}
    ELSE
    LET segment == elf.phdrs[k]
        first_load == IF load_addr = {}
                      THEN {segment.virtual_addr - segment.offset}
                      ELSE load_addr
        next(map2, mem2, load_addr2) ==
            elf_load_from(regions, map2, mem2, elf, k + 1, load_addr2, region_type, page_size)
        hva == addr_gpa2hva(regions, segment.physical_addr)
        copied == mem_write(mem, hva.val,
                      SubSeq(elf.data, segment.offset + 1, segment.offset + segment.file_size))
        filled == IF segment.mem_size > segment.file_size
                  THEN mem_zero(copied, hva.val + segment.file_size,
                                segment.mem_size - segment.file_size)
                  ELSE copied
        load(map2) ==
            IF ~hva.ok THEN {returns(hva, map2, mem)}
            ELSE IF segment.file_size > segment.mem_size
            THEN {aborts(map2, mem)}                \* host_slice[..file_size]
            ELSE IF segment.offset + segment.file_size > Len(elf.data)
            THEN {aborts(map2, mem)}                \* data[offset..offset + file_size]
            ELSE IF slice_in_slot(regions, segment.physical_addr, segment.mem_size)
            THEN next(map2, filled, first_load)
            \* host_slice reaches past the mapping of the slot: the stores
            \* fault, or they land in whatever the host has mapped behind it.
            ELSE {aborts(map2, mem)} \cup next(map2, filled, first_load)
    IN  IF segment.type = "Interp" THEN {returns(Err("NotAStaticBinary"), map, mem)}
        ELSE IF segment.type # "Load" THEN next(map, mem, load_addr)
        ELSE IF segment.mem_size = 0 THEN next(map, mem, first_load)
        ELSE UNION {IF x.ok THEN load(x.m) ELSE {aborts(x.m, mem)} :
                      x \in mark_allocated_region(map,
                                segment_region(segment, page_size, region_type))}

elf_load(regions, map, mem, elf, region_type, page_size) ==
    elf_load_from(regions, map, mem, elf, 1, {}, region_type, page_size)

(***************************************************************************)
(* SpecElf: a KvmVm as vm_create(VmPhyPages) leaves it, into which one     *)
(* file is loaded.                                                         *)
(***************************************************************************)
InitElf ==
    /\ \E vm \in vm_create(VmPhyPages, HostArea(0)) :
          /\ userspace_mem_regions = vm.regions
          /\ memory_map = vm.map
          /\ host_bytes = vm.mem
    /\ map_op = [name |-> "new", region |-> MemoryRegion_empty, ok |-> TRUE, before |-> NoCall]
    /\ map_calls = 0
    /\ vm_op = [name |-> "vm_create", returned |-> TRUE]
    /\ syscall_page = [kind |-> "none"]
    /\ stdio = <<>>
    /\ NoGuest
    /\ NoKernel

ElfLoad ==
    /\ vm_op.name = "vm_create"
    /\ \E phdrs \in ElfFiles, region_type \in {"App", "Kernel"} :
       \E x \in elf_load(userspace_mem_regions, memory_map, host_bytes, ElfFile(phdrs),
                         region_type, DEFAULT_GUEST_PAGE_SIZE) :
          /\ memory_map' = x.map
          /\ host_bytes' = x.mem
          /\ vm_op' = [name |-> "elf_load", elf |-> ElfFile(phdrs),
                       region_type |-> region_type,
                       result |-> x.result, returned |-> x.returned]
    /\ UNCHANGED <<map_op, map_calls, userspace_mem_regions, syscallVars, guestVars, kernelVars>>

NextElf == ElfLoad

SpecElf == InitElf /\ [][NextElf]_vars

(***************************************************************************)
(* C8.  After elf_load has returned Ok, for every PT_LOAD segment with     *)
(* mem_size > 0 the bytes of guest memory at [physical_addr,               *)
(* physical_addr + file_size) equal the bytes [offset, offset + file_size) *)
(* of the file, and the bytes at [physical_addr + file_size,               *)
(* physical_addr + mem_size) are zero.                                     *)
(* The code breaks it: it never compares the end of a segment with the end *)
(* of the slot, so a segment that starts in the slot and ends behind it is *)
(* stored through a slice that reaches past the host mapping, and the call *)
(* returns Ok although the guest has no memory at the last bytes.          *)
(***************************************************************************)
\* The byte of guest memory at gpa, -1 where the guest has no memory.
GuestByte(gpa) ==
    LET hva == addr_gpa2hva(userspace_mem_regions, gpa)
    IN  IF hva.ok THEN Byte(host_bytes, hva.val) ELSE -1

SegmentLoaded(elf, segment) ==
    /\ \A i \in 0..(segment.file_size - 1) :
          GuestByte(segment.physical_addr + i) = elf.data[segment.offset + i + 1]
    /\ \A i \in segment.file_size..(segment.mem_size - 1) :
          GuestByte(segment.physical_addr + i) = 0

C8_SegmentsLoaded ==
    (vm_op.name = "elf_load" /\ vm_op.returned /\ vm_op.result.ok)
        => \A k \in DOMAIN vm_op.elf.phdrs :
              (vm_op.elf.phdrs[k].type = "Load" /\ vm_op.elf.phdrs[k].mem_size > 0)
                  => SegmentLoaded(vm_op.elf, vm_op.elf.phdrs[k])

(***************************************************************************)
(* kvmvm.rs: handle_syscall, the host side of the hypercall page           *)
(***************************************************************************)
\* The bound that handle_syscall puts on the count of a Write.
WRITE_COUNT_MAX == 4000

\* Length of the inline buffer of VmSyscall::Write.
WRITE_DATA_LEN == 4000

\* The fd of a Write or Read request ranges over 0..MaxFd.
MaxFd == 3

Errno(e) == [errno |-> e]

\* VmSyscallRet: the tag and the Result it carries.
VmSyscallRet(tag, result) == [tag |-> tag, result |-> result]

\* A bound that cuts one byte too early.
clamp_count_short(count) ==
    IF count >= WRITE_COUNT_MAX THEN WRITE_COUNT_MAX - 1 ELSE count

\* if count > 4000 { count = 4000; }
clamp_count(count) == IF count > WRITE_COUNT_MAX THEN WRITE_COUNT_MAX ELSE count

\* ENOSYS for every request that is not served.
unserved_errno_enosys(tag) == "ENOSYS"

\* The errno of a request that is not served.
unserved_errno(tag) == IF tag \in {"Write", "Read"} THEN "EBADF" ELSE "ENOSYS"

\* What write_all may do with a buffer of len bytes: write them all, or
\* fail after part of them with an OS error or with an error that has none.
\* Nothing is written and nothing fails for an empty buffer.
write_all_outcomes(len) ==
    {[ok |-> TRUE, written |-> len, raw_os_error |-> "none"]}
    \cup {[ok |-> FALSE, written |-> n, raw_os_error |-> e] :
             n \in {n \in {0, len - 1} : len > 0}, e \in {"EIO", "EPIPE", "none"}}

\* An errno taken from the error as it is, also when it has none.
io_errno_unchecked(io) == io.raw_os_error

\* e.raw_os_error().unwrap_or(EBADF)
io_errno(io) == IF io.raw_os_error = "none" THEN "EBADF" ELSE io.raw_os_error

\* The Write arm for fd 1 and fd 2.  A count above the length of data panics.
write_to(stream, count0, data, io) ==
    LET count == clamp_count(count0)
    IN  IF count > Len(data)
        THEN [returned |-> FALSE, result |-> Err("panic"), writes |-> <<>>]
        ELSE [returned |-> TRUE, result |-> Ok("unit"),
              ret |-> VmSyscallRet("Write",
                          IF io.ok THEN Ok(count) ELSE Err(Errno(io_errno(io)))),
              writes |-> <<[stream |-> stream, buf |-> SubSeq(data, 1, count),
                            ok |-> io.ok, written |-> io.written,
                            raw_os_error |-> io.raw_os_error]>>]

\* The length of the buffer that the request makes handle_syscall write.
write_len(request) ==
    IF request.tag = "Write" /\ request.fd \in {1, 2}
    THEN clamp_count(request.count) ELSE 0

handle_syscall(request, io) ==
    IF request.tag = "Write" /\ request.fd = 1
    THEN write_to("stdout", request.count, request.data, io)
    ELSE IF request.tag = "Write" /\ request.fd = 2
    THEN write_to("stderr", request.count, request.data, io)
    ELSE [returned |-> TRUE, result |-> Ok("unit"),
          ret |-> VmSyscallRet(request.tag, Err(Errno(unserved_errno(request.tag)))),
          writes |-> <<>>]

\* The Mmap arm as its disabled code has it: the host maps memory for the
\* request and records it as a slot.
regions_after_mapping(regions, request) ==
    IF request.tag = "Mmap"
    THEN Append(regions, UserspaceMemRegion(0, request.addr, request.length,
                                            HostArea(Len(regions))))
    ELSE regions

\* The slot list after handle_syscall: no arm adds, removes or changes a slot.
regions_after(regions, request) == regions

(***************************************************************************)
(* SpecSyscall: a KvmVm with its vcpu added, whose guest puts requests in  *)
(* the hypercall page and whose host answers them.                         *)
(***************************************************************************)
WriteData ==
    {[i \in 1..WRITE_DATA_LEN |-> i % 256], [i \in 1..WRITE_DATA_LEN |-> (7 * i + 1) % 256]}

Counts ==
    {0, 1, WRITE_COUNT_MAX - 1, WRITE_COUNT_MAX, WRITE_COUNT_MAX + 1, 10000}

Fields == {0, PAGE_SIZE}

VmSyscall ==
    {[tag |-> "Write", fd |-> fd, count |-> count, data |-> data] :
        fd \in 0..MaxFd, count \in Counts, data \in WriteData}
    \cup {[tag |-> "Read", fd |-> fd, count |-> count] : fd \in 0..MaxFd, count \in Counts}
    \cup {[tag |-> "Mmap", addr |-> a, length |-> l, prot |-> p, flags |-> f] :
             a \in Fields, l \in Fields, p \in Fields, f \in Fields}
    \cup {[tag |-> "Madvise", addr |-> a, length |-> l, advice |-> v] :
             a \in Fields, l \in Fields, v \in Fields}
    \cup {[tag |-> "Mremap", old_address |-> a, old_size |-> l, new_size |-> n, flags |-> f] :
             a \in Fields, l \in Fields, n \in Fields, f \in Fields}
    \cup {[tag |-> "Munmap", addr |-> a, length |-> l] : a \in Fields, l \in Fields}
    \cup {[tag |-> "Mprotect", addr |-> a, length |-> l, prot |-> p] :
             a \in Fields, l \in Fields, p \in Fields}

InitSyscall ==
    /\ \E vm \in vm_create(VmPhyPages, HostArea(0)) :
          /\ userspace_mem_regions = vm.regions
          /\ memory_map = vm.map
          /\ host_bytes = vm.mem
    /\ map_op = [name |-> "new", region |-> MemoryRegion_empty, ok |-> TRUE, before |-> NoCall]
    /\ map_calls = 0
    /\ vm_op = [name |-> "vcpu_add_default", returned |-> TRUE]
    /\ syscall_page = [kind |-> "BootInfo"]
    /\ stdio = <<>>
    /\ NoGuest
    /\ NoKernel

\* The guest puts a request in the page and triggers the port; stdio holds
\* the write_all calls made since.
GuestSyscall ==
    /\ vm_op.returned
    /\ syscall_page.kind # "VmSyscall"
    /\ \E request \in VmSyscall : syscall_page' = [kind |-> "VmSyscall", request |-> request]
    /\ vm_op' = [name |-> "run", returned |-> TRUE]
    /\ stdio' = <<>>
    /\ UNCHANGED <<mapVars, userspace_mem_regions, host_bytes, guestVars, kernelVars>>

HandleSyscall ==
    /\ vm_op.returned
    /\ syscall_page.kind = "VmSyscall"
    /\ \E io \in write_all_outcomes(write_len(syscall_page.request)) :
          LET x == handle_syscall(syscall_page.request, io)
          IN  /\ syscall_page' = IF x.returned
                                 THEN [kind |-> "VmSyscallRet", ret |-> x.ret]
                                 ELSE syscall_page
              /\ stdio' = x.writes
              /\ vm_op' = [name |-> "handle_syscall", request |-> syscall_page.request,
                           result |-> x.result, returned |-> x.returned]
    /\ userspace_mem_regions' = regions_after(userspace_mem_regions, syscall_page.request)
    /\ UNCHANGED <<mapVars, host_bytes, guestVars, kernelVars>>

NextSyscall == GuestSyscall \/ HandleSyscall

SpecSyscall == InitSyscall /\ [][NextSyscall]_vars

(***************************************************************************)
(* C9.  For a Write request with fd 1 or 2 and any count, the host writes  *)
(* exactly the first min(count, 4000) bytes of the inline buffer to stdout *)
(* (fd 1) or stderr (fd 2): it hands them to one write_all on that stream; *)
(* and when the write succeeds, all of them are written and the reply is   *)
(* Write(Ok(min(count, 4000))).                                            *)
(***************************************************************************)
Handled == vm_op.name = "handle_syscall"

MinCount(count) == IF count < 4000 THEN count ELSE 4000

C9_WriteSendsBoundedPrefix ==
    (Handled /\ vm_op.request.tag = "Write" /\ vm_op.request.fd \in {1, 2})
        => /\ vm_op.returned
           /\ Len(stdio) = 1
           /\ stdio[1].stream = (IF vm_op.request.fd = 1 THEN "stdout" ELSE "stderr")
           /\ Len(stdio[1].buf) = MinCount(vm_op.request.count)
           /\ \A i \in 1..MinCount(vm_op.request.count) :
                 stdio[1].buf[i] = vm_op.request.data[i]
           /\ stdio[1].ok
                 => /\ stdio[1].written = MinCount(vm_op.request.count)
                    /\ syscall_page = [kind |-> "VmSyscallRet",
                                       ret |-> VmSyscallRet("Write",
                                                   Ok(MinCount(vm_op.request.count)))]

\* A Write of 10000 bytes to fd 2 sent 4000 bytes to stderr and was answered
\* with Write(Ok(4000)).
C9_Witness ==
    /\ Handled
    /\ vm_op.request.tag = "Write" /\ vm_op.request.fd = 2 /\ vm_op.request.count = 10000
    /\ Len(stdio) = 1 /\ stdio[1].stream = "stderr" /\ stdio[1].ok
    /\ Len(stdio[1].buf) = 4000
    /\ syscall_page.kind = "VmSyscallRet"
    /\ syscall_page.ret = VmSyscallRet("Write", Ok(4000))

(***************************************************************************)
(* C10.  The reply written to the page carries the tag of the request; a   *)
(* Write with an fd other than 1 and 2 and every Read are answered with    *)
(* Err(Errno(EBADF)); every Mmap, Munmap, Mremap, Mprotect and Madvise is  *)
(* answered with Err(Errno(ENOSYS)), whatever its fields are.              *)
(***************************************************************************)
C10_RepliesKeepTagAndStubErrno ==
    Handled
        => /\ syscall_page.kind = "VmSyscallRet"
           /\ syscall_page.ret.tag = vm_op.request.tag
           /\ (vm_op.request.tag = "Write" /\ vm_op.request.fd \notin {1, 2})
                 => /\ syscall_page.ret.result = Err(Errno("EBADF"))
                    /\ stdio = <<>>
           /\ vm_op.request.tag = "Read"
                 => /\ syscall_page.ret.result = Err(Errno("EBADF"))
                    /\ stdio = <<>>
           /\ vm_op.request.tag \in {"Mmap", "Munmap", "Mremap", "Mprotect", "Madvise"}
                 => /\ syscall_page.ret.result = Err(Errno("ENOSYS"))
                    /\ stdio = <<>>

\* A Write to fd 3 was answered with Write(Err(Errno(EBADF))).
C10_Witness ==
    /\ Handled
    /\ vm_op.request.tag = "Write" /\ vm_op.request.fd = 3 /\ vm_op.request.count = 1
    /\ syscall_page = [kind |-> "VmSyscallRet",
                       ret |-> VmSyscallRet("Write", Err(Errno("EBADF")))]

(***************************************************************************)
(* C11.  handle_syscall never aborts the host and never fails: for every   *)
(* request the guest can place in the page (any tag, any fd, any count) it *)
(* writes a reply and returns Ok, and an error of the host's write shows   *)
(* only as Err(Errno(e)) in the reply, with EBADF when the error has no    *)
(* errno.                                                                  *)
(***************************************************************************)
ReplyTags == {"Write", "Read", "Mmap", "Munmap", "Mremap", "Mprotect", "Madvise"}

C11_AlwaysRepliesAndReturnsOk ==
    Handled
        => /\ vm_op.returned
           /\ vm_op.result = Ok("unit")
           /\ syscall_page.kind = "VmSyscallRet"
           /\ syscall_page.ret.tag \in ReplyTags
           /\ \A i \in DOMAIN stdio :
                 ~stdio[i].ok
                    => syscall_page.ret.result =
                          Err(Errno(IF stdio[i].raw_os_error = "none" THEN "EBADF"
                                    ELSE stdio[i].raw_os_error))
           /\ ~syscall_page.ret.result.ok
                 => syscall_page.ret.result.err.errno \in {"EBADF", "ENOSYS", "EIO", "EPIPE"}

\* A write to stdout failed with an error that has no errno, and the host
\* returned Ok with the reply Write(Err(Errno(EBADF))).
C11_Witness ==
    /\ Handled /\ vm_op.returned /\ vm_op.result = Ok("unit")
    /\ vm_op.request.tag = "Write" /\ vm_op.request.fd = 1
    /\ vm_op.request.count = 4001
    /\ Len(stdio) = 1 /\ ~stdio[1].ok /\ stdio[1].raw_os_error = "none"
    /\ syscall_page = [kind |-> "VmSyscallRet",
                       ret |-> VmSyscallRet("Write", Err(Errno("EBADF")))]

(***************************************************************************)
(* C12.  Servicing a hypercall changes no guest memory outside the shared  *)
(* page [0x1000, 0x2000) and changes neither the slot list of the host nor *)
(* its memory map.  (The model keeps the shared page in syscall_page and   *)
(* the rest of the memory of the slots in host_bytes.)                     *)
(***************************************************************************)
C12_ServicingKeepsMemoryAndSlots ==
    [][vm_op'.name = "handle_syscall"
          => /\ host_bytes' = host_bytes
             /\ userspace_mem_regions' = userspace_mem_regions
             /\ memory_map' = memory_map]_vars

\* An Mmap request was answered, and the VM still has the one slot, the
\* memory map and the page tables that vm_create gave it.
C12_Witness ==
    /\ Handled
    /\ vm_op.request.tag = "Mmap" /\ vm_op.request.length = PAGE_SIZE
    /\ syscall_page.kind = "VmSyscallRet"
    /\ Len(userspace_mem_regions) = 1
    /\ memory_map.next_entry_index = 3
    /\ GuestByte(PML4_START) = 7

(***************************************************************************)
(* SpecRun: the host thread and its vCPU taking turns.  The loop that runs *)
(* the vCPU and calls handle_syscall on an exit is the caller of this      *)
(* code; handle_syscall is taken in its two accesses of the page, the read *)
(* of the request and the write of the reply.  vm_op says who is active    *)
(* (vcpu, host) and who accessed the page in the last step (accessor).     *)
(***************************************************************************)
SYSCALL_TRIGGER_PORT == 255

\* Mutant of resume_ready: the vCPU is resumed as soon as the request is read.
resume_ready_after_read(op) ==
    op.name \in {"vcpu_add_default", "read_request", "handle_syscall"} /\ op.returned

\* The host enters the vCPU after vcpu_add_default and after a handle_syscall
\* that returned.
resume_ready(op) ==
    op.name \in {"vcpu_add_default", "handle_syscall"} /\ op.returned

InitRun ==
    /\ \E vm \in vm_create(VmPhyPages, HostArea(0)) :
          /\ userspace_mem_regions = vm.regions
          /\ memory_map = vm.map
          /\ host_bytes = vm.mem
    /\ map_op = [name |-> "new", region |-> MemoryRegion_empty, ok |-> TRUE, before |-> NoCall]
    /\ map_calls = 0
    /\ vm_op = [name |-> "vcpu_add_default", returned |-> TRUE,
                vcpu |-> "suspended", host |-> "active", accessor |-> "host"]
    /\ syscall_page = [kind |-> "BootInfo"]
    /\ stdio = <<>>
    /\ NoGuest
    /\ NoKernel

\* The host thread enters the vCPU and blocks until the next exit.
Resume ==
    /\ vm_op.host = "active"
    /\ resume_ready(vm_op)
    /\ vm_op' = [name |-> "run", returned |-> TRUE,
                 vcpu |-> "running", host |-> "blocked", accessor |-> "none"]
    /\ stdio' = <<>>
    /\ UNCHANGED <<mapVars, userspace_mem_regions, host_bytes, syscall_page, guestVars, kernelVars>>

\* The running guest serializes a request into the page.
VcpuStoreRequest ==
    /\ vm_op.vcpu = "running"
    /\ \E request \in VmSyscall :
          /\ syscall_page # [kind |-> "VmSyscall", request |-> request]
          /\ syscall_page' = [kind |-> "VmSyscall", request |-> request]
    /\ vm_op' = [vm_op EXCEPT !.accessor = "vcpu"]
    /\ UNCHANGED <<mapVars, userspace_mem_regions, host_bytes, stdio, guestVars, kernelVars>>

\* The guest writes to the trigger port after serializing its request: the
\* vCPU exits and the host thread continues.
VcpuOut ==
    /\ vm_op.vcpu = "running"
    /\ syscall_page.kind = "VmSyscall"
    /\ vm_op' = [name |-> "io_exit", port |-> SYSCALL_TRIGGER_PORT, returned |-> TRUE,
                 vcpu |-> "suspended", host |-> "active", accessor |-> "none"]
    /\ UNCHANGED <<mapVars, userspace_mem_regions, host_bytes, syscall_page, stdio, guestVars, kernelVars>>

\* handle_syscall, first half: request.read_volatile().
ReadRequest ==
    /\ vm_op.host = "active"
    /\ vm_op.name = "io_exit" /\ vm_op.port = SYSCALL_TRIGGER_PORT
    /\ vm_op' = [name |-> "read_request", request |-> syscall_page.request, returned |-> TRUE,
                 vcpu |-> vm_op.vcpu, host |-> "active", accessor |-> "host"]
    /\ UNCHANGED <<mapVars, userspace_mem_regions, host_bytes, syscall_page, stdio, guestVars, kernelVars>>

\* handle_syscall, second half: the arm of the request and reply.write_volatile.
WriteReply ==
    /\ vm_op.name = "read_request"
    /\ \E io \in write_all_outcomes(write_len(vm_op.request)) :
          LET x == handle_syscall(vm_op.request, io)
          IN  /\ syscall_page' = IF x.returned
                                 THEN [kind |-> "VmSyscallRet", ret |-> x.ret]
                                 ELSE syscall_page
              /\ stdio' = x.writes
              /\ vm_op' = [name |-> "handle_syscall", request |-> vm_op.request,
                           result |-> x.result, returned |-> x.returned,
                           vcpu |-> vm_op.vcpu, host |-> "active", accessor |-> "host"]
    /\ userspace_mem_regions' = regions_after(userspace_mem_regions, vm_op.request)
    /\ UNCHANGED <<mapVars, host_bytes, guestVars, kernelVars>>

NextRun == Resume \/ VcpuStoreRequest \/ VcpuOut \/ ReadRequest \/ WriteReply

SpecRun == InitRun /\ [][NextRun]_vars

(***************************************************************************)
(* C13.  At most one of the host and the vCPU is active on the shared      *)
(* hypercall page: the host reads or writes the page only between the      *)
(* VM-exit on the write to port 0xFF and the following resume, and when    *)
(* the vCPU resumes the reply is written in the page.                      *)
(***************************************************************************)
C13_OneParticipantOnThePage ==
    [][/\ ~(vm_op'.vcpu = "running" /\ vm_op'.host = "active")
       /\ vm_op'.accessor = "host" => vm_op.vcpu = "suspended" /\ vm_op'.vcpu = "suspended"
       /\ vm_op'.accessor = "host" => vm_op.name \in {"io_exit", "read_request"}
       /\ vm_op'.accessor = "vcpu" => vm_op.host = "blocked" /\ vm_op'.host = "blocked"
       /\ (vm_op.name # "vcpu_add_default" /\ vm_op.vcpu = "suspended" /\ vm_op'.vcpu = "running")
             => /\ syscall_page'.kind = "VmSyscallRet"
                /\ \E io \in write_all_outcomes(write_len(vm_op.request)) :
                      syscall_page'.ret = handle_syscall(vm_op.request, io).ret]_vars

\* The vCPU runs again after a hypercall, with the reply of a failed write to
\* stderr in the page.
C13_Witness ==
    /\ vm_op.name = "run" /\ vm_op.vcpu = "running" /\ vm_op.host = "blocked"
    /\ syscall_page = [kind |-> "VmSyscallRet",
                       ret |-> VmSyscallRet("Write", Err(Errno("EIO")))]

(***************************************************************************)
(* The guest's frame allocator (BootInfoFrameAllocator), which implements  *)
(* FrameAllocator over the memory map of BootInfo: it counts the frames it *)
(* handed out and returns the frame at that position among the frames of   *)
(* the Usable regions, in the order of the map.                            *)
(***************************************************************************)
Some(v) == [some |-> TRUE, v |-> v]
None == [some |-> FALSE]

\* Number of allocate_frame calls in one run.
MaxAllocs == 4

RECURSIVE usable_frames_from(_, _)
usable_frames_from(m, i) ==
    IF i > m.next_entry_index
    THEN <<>>
    ELSE (IF m.entries[i].region_type = Usable
          THEN [k \in 1..(IF is_empty(m.entries[i].range)
                          THEN 0
                          ELSE m.entries[i].range.end_frame_number
                                  - m.entries[i].range.start_frame_number) |->
                   m.entries[i].range.start_frame_number + k - 1]
          ELSE <<>>) \o usable_frames_from(m, i + 1)

\* The frames of the Usable regions, in the order of the map.
usable_frames(m) == usable_frames_from(m, 1)

\* FrameAllocator::allocate_frame of the allocator: the frame at position
\* next, and the position after it.
allocate_frame(m, next) ==
    [frame |-> IF next < Len(usable_frames(m)) THEN Some(usable_frames(m)[next + 1]) ELSE None,
     next |-> next + 1]

(***************************************************************************)
(* SpecFrames: the guest kernel allocating frames from a sorted memory map *)
(* of disjoint regions, and releasing the KernelStack regions after the    *)
(* stack swap.                                                             *)
(***************************************************************************)
GuestKinds == {Usable, "KernelStack", "Kernel"}

GuestRegions ==
    {MemoryRegion(s, e, t) : s \in 0..MaxFrame, e \in 1..(MaxFrame + 1), t \in GuestKinds}

\* Sorted maps of disjoint non-empty regions.
GuestMaps ==
    {[entries |-> [i \in 1..MapCapacity |-> IF i <= n THEN regions[i] ELSE MemoryRegion_empty],
      next_entry_index |-> n] :
        n \in 1..MapCapacity, regions \in [1..MapCapacity -> GuestRegions]}

SortedDisjoint(m) ==
    /\ WellFormed(m)
    /\ \A i, j \in Visible(m) :
          i < j => m.entries[i].range.end_frame_number <= m.entries[j].range.start_frame_number

InitFrames ==
    /\ memory_map \in {m \in GuestMaps : SortedDisjoint(m)}
    /\ map_op = [name |-> "sort", region |-> MemoryRegion_empty, ok |-> TRUE, before |-> NoCall]
    /\ map_calls = 0
    /\ NoVm
    /\ frame_allocator = [name |-> "init", next |-> 0, frames |-> <<>>]
    /\ page_range = [name |-> "none"]
    /\ NoKernel

AllocateFrame ==
    /\ Len(frame_allocator.frames) < MaxAllocs
    /\ LET x == allocate_frame(memory_map, frame_allocator.next)
       IN  frame_allocator' = [name |-> "allocate_frame", next |-> x.next,
                               frames |-> Append(frame_allocator.frames, x.frame)]
    /\ UNCHANGED <<mapVars, vmVars, syscallVars, page_range, kernelVars>>

\* init_after_stack_swap
SetRegionTypeUsable ==
    /\ memory_map' = set_region_type_usable(memory_map, "KernelStack")
    /\ memory_map' # memory_map
    /\ map_op' = [name |-> "set_region_type_usable",
                  region |-> MemoryRegion_empty, ok |-> TRUE, before |-> Before]
    /\ frame_allocator' = [frame_allocator EXCEPT !.name = "set_region_type_usable"]
    /\ UNCHANGED <<map_calls, vmVars, syscallVars, page_range, kernelVars>>

NextFrames == AllocateFrame \/ SetRegionTypeUsable

SpecFrames == InitFrames /\ [][NextFrames]_vars

(***************************************************************************)
(* C14.  Across any sequence of allocate_frame calls, also after           *)
(* set_region_type_usable(KernelStack), the allocator never returns the    *)
(* same frame twice, returns only frames of Usable regions, in ascending   *)
(* address order, and returns None once no frame is left.                  *)
(* The allocator keeps a position among the Usable frames: a KernelStack   *)
(* region below the position that becomes Usable shifts every frame behind *)
(* it, and frames already handed out are handed out again.                 *)
(***************************************************************************)
UsableFrames(m) ==
    UNION {FramesOf(m.entries[i].range) : i \in {j \in Visible(m) : m.entries[j].region_type = Usable}}

HandedOut(frames) == {frames[i].v : i \in {j \in DOMAIN frames : frames[j].some}}

VirtAddrBits == 15
Size4KiB == 4096
\* Calls of next made after the last page of a range was yielded.
MaxExtraCalls == 2

VirtAddrs == 0..(2 ^ VirtAddrBits - 1)

\* VirtAddr + u64: past the last address the sum wraps or the addition
\* panics, as the build has it.
VirtAddr_add(addr, rhs) ==
    IF addr + rhs \in VirtAddrs
    THEN {Ok(addr + rhs)}
    ELSE {Ok((addr + rhs) % (2 ^ VirtAddrBits)), Err("panic")}

containing_address(address) == align_down(address, Size4KiB)

\* impl Add<u64> for Page
Page_add(page, rhs) ==
    {IF sum.ok THEN Ok(containing_address(sum.val)) ELSE sum :
        sum \in VirtAddr_add(page, rhs * Size4KiB)}

Page_range(start, end) == [name |-> "range", start |-> start, end |-> end]
Page_range_inclusive(start, end) == [name |-> "range_inclusive", start |-> start, end |-> end]

\* Iterator::next of PageRange and of PageRangeInclusive: the range after the
\* call and the item, or a panic.
PageRange_next(range) ==
    IF (range.name = "range" /\ range.start < range.end)
       \/ (range.name = "range_inclusive" /\ range.start <= range.end)
    THEN {IF sum.ok
          THEN Ok([range |-> [range EXCEPT !.start = sum.val], item |-> Some(range.start)])
          ELSE sum :
             sum \in Page_add(range.start, 1)}
    ELSE {Ok([range |-> range, item |-> None])}

(***************************************************************************)
(* SpecPages: a range from a page s to the page s + n, asked for its items *)
(* one after the other.                                                    *)
(***************************************************************************)
Pages == {containing_address(a) : a \in VirtAddrs}

PageNumbers == 0..(Cardinality(Pages) - 1)

InitPages ==
    /\ memory_map = MemoryMap_new(MapCapacity)
    /\ map_op = [name |-> "new", region |-> MemoryRegion_empty, ok |-> TRUE, before |-> NoCall]
    /\ map_calls = 0
    /\ NoVm
    /\ frame_allocator = [name |-> "none"]
    /\ NoKernel
    /\ \E s \in Pages, n \in PageNumbers, make \in {"range", "range_inclusive"} :
          \E end \in Page_add(s, n) :
             /\ end.ok /\ end.val >= s
             /\ page_range = [range |-> IF make = "range"
                                        THEN Page_range(s, end.val)
                                        ELSE Page_range_inclusive(s, end.val),
                              s |-> s, n |-> n, items |-> <<>>, ok |-> TRUE]

\* The number of pages the range is to yield.
PagesToYield == page_range.n + (IF page_range.range.name = "range_inclusive" THEN 1 ELSE 0)

RangeNext ==
    /\ page_range.ok
    /\ Len(page_range.items) < PagesToYield + MaxExtraCalls
    /\ \E x \in PageRange_next(page_range.range) :
          page_range' = IF x.ok
                        THEN [page_range EXCEPT !.range = x.val.range,
                                                !.items = Append(@, x.val.item)]
                        ELSE [page_range EXCEPT !.ok = FALSE]
    /\ UNCHANGED <<mapVars, vmVars, syscallVars, frame_allocator, kernelVars>>

NextPages == RangeNext

SpecPages == InitPages /\ [][NextPages]_vars

(***************************************************************************)
(* C15.  For a page s and n >= 0, Page::range(s, s + n) yields exactly the *)
(* pages s, s + 1, ..., s + n - 1 and then None, and                       *)
(* Page::range_inclusive(s, s + n) yields exactly s, ..., s + n and then   *)
(* None.                                                                   *)
(* The inclusive range adds one to start before it returns the last page:  *)
(* when s + n is the last page of the address space, the addition          *)
(* overflows.                                                              *)
(***************************************************************************)
C15_RangesYieldTheirPages ==
    /\ page_range.ok
    /\ \A i \in DOMAIN page_range.items :
          page_range.items[i] = IF i <= PagesToYield
                                THEN Some(page_range.s + (i - 1) * Size4KiB)
                                ELSE None

(***************************************************************************)
(* The address translation of the vCPU in long mode with 4-level paging    *)
(* (CR0.PG, CR4.PAE, EFER.LME of vcpu_add_default), over the page tables   *)
(* in guest memory.  The entries of the model are below 2^24.              *)
(***************************************************************************)
\* The u64 at the guest-physical address gpa, -1 where the guest has no memory.
read_u64(gpa) ==
    IF \E i \in 0..7 : GuestByte(gpa + i) = -1
    THEN -1
    ELSE GuestByte(gpa) + 256 * GuestByte(gpa + 1) + 65536 * GuestByte(gpa + 2)

entry_present(entry) == entry # -1 /\ entry % 2 = 1
entry_huge(entry) == (entry \div 128) % 2 = 1
entry_addr(entry, align) == align_down(entry, align)

\* The guest-physical address of the guest-virtual address v, for v < 2^31.
page_walk(cr3, v) ==
    LET p4_index == 0
        p3_index == (v \div (2 ^ 30)) % 512
        p2_index == (v \div (2 ^ 21)) % 512
        p1_index == (v \div (2 ^ 12)) % 512
        p4e == read_u64(entry_addr(cr3, 4096) + 8 * p4_index)
        p3e == read_u64(entry_addr(p4e, 4096) + 8 * p3_index)
        p2e == read_u64(entry_addr(p3e, 4096) + 8 * p2_index)
        p1e == read_u64(entry_addr(p2e, 4096) + 8 * p1_index)
    IN  IF ~entry_present(p4e) THEN Err("PageFault")
        ELSE IF ~entry_present(p3e) THEN Err("PageFault")
        ELSE IF entry_huge(p3e) THEN Ok(entry_addr(p3e, 2 ^ 30) + (v % (2 ^ 30)))
        ELSE IF ~entry_present(p2e) THEN Err("PageFault")
        ELSE IF entry_huge(p2e) THEN Ok(entry_addr(p2e, 2 ^ 21) + (v % (2 ^ 21)))
        ELSE IF ~entry_present(p1e) THEN Err("PageFault")
        ELSE Ok(entry_addr(p1e, 4096) + (v % 4096))

(***************************************************************************)
(* SpecWalk: the vCPU of a fresh VM translating guest-virtual addresses of *)
(* the first GiB.                                                          *)
(***************************************************************************)
\* The walks start at WalkProbes addresses spread evenly over the first GiB,
\* and at the ends of the first 2 MiB and of the GiB.
WalkProbes == 256

WalkAddrs ==
    {k * ((2 ^ 30) \div WalkProbes) : k \in 0..(WalkProbes - 1)}
    \cup {1, SYSCALL_PHYS_ADDR, PML4_START, HIMEM_START, 2 ^ 21 - 1, 2 ^ 21, 2 ^ 30 - 1}

InitWalk ==
    /\ \E vm \in vm_create(VmPhyPages, HostArea(0)) :
          /\ userspace_mem_regions = vm.regions
          /\ memory_map = vm.map
          /\ host_bytes = vm.mem
    /\ map_op = [name |-> "new", region |-> MemoryRegion_empty, ok |-> TRUE, before |-> NoCall]
    /\ map_calls = 0
    /\ vm_op = [name |-> "vm_create", returned |-> TRUE]
    /\ syscall_page = [kind |-> "none"]
    /\ stdio = <<>>
    /\ NoGuest
    /\ NoKernel

Walk ==
    /\ \E v \in WalkAddrs :
          vm_op' = [name |-> "walk", cr3 |-> PML4_START, v |-> v,
                    result |-> page_walk(PML4_START, v), returned |-> TRUE]
    /\ UNCHANGED <<mapVars, userspace_mem_regions, host_bytes, syscallVars, guestVars, kernelVars>>

NextWalk == Walk

SpecWalk == InitWalk /\ [][NextWalk]_vars

(***************************************************************************)
(* C16.  With the page tables of setup_page_tables and CR3 = 0x9000, the   *)
(* walk of every guest-virtual address v in [0, 1 GiB) succeeds and        *)
(* resolves to the guest-physical address v.                               *)
(* setup_page_tables fills one entry of the page directory: the walk       *)
(* succeeds for v in [0, 2 MiB) only.                                      *)
(***************************************************************************)
C16_FirstGiBIdentityMapped ==
    (vm_op.name = "walk" /\ vm_op.v < 2 ^ 30) => vm_op.result = Ok(vm_op.v)

(***************************************************************************)
(* C17.  add_region(r) merges r into an existing entry only when that      *)
(* entry is the last entry of the map, has the kind of r and has its       *)
(* end_frame inside [r.start_frame, r.end_frame]; in every other case r is *)
(* appended as a new entry at next_index and the map is re-sorted.         *)
(***************************************************************************)
\* An add_region call that returned.
AddReturned == map_calls' = map_calls + 1 /\ map_op'.name = "add_region" /\ map_op'.ok

Extended(m, i, region) ==
    [m EXCEPT !.entries[i].range.end_frame_number = region.range.end_frame_number]

Appended(m, region) ==
    [entries |-> [m.entries EXCEPT ![m.next_entry_index + 1] = region],
     next_entry_index |-> m.next_entry_index + 1]

\* The claim as stated.
C17_MergesOnlyIntoLastEntry ==
    [][AddReturned
          => IF /\ memory_map.next_entry_index > 0
                /\ memory_map.next_entry_index
                      \in MergeTargets(memory_map, map_op'.region.range.start_frame_number,
                                       map_op'.region.range.end_frame_number,
                                       map_op'.region.region_type)
             THEN memory_map' = Extended(memory_map, memory_map.next_entry_index, map_op'.region)
             ELSE /\ memory_map.next_entry_index < entries_len(memory_map)
                  /\ memory_map' \in sort(Appended(memory_map, map_op'.region))]_vars

\* C17 as the code has it: r is merged into the first entry of the array,
\* whatever its place, that has the kind of r and its end_frame inside
\* [r.start_frame, r.end_frame], and the map is left unsorted; only when the
\* array has no such entry r is appended and the map re-sorted.
C17_MergesIntoFirstMatchingEntry ==
    [][AddReturned
          => LET targets == MergeTargets(memory_map, map_op'.region.range.start_frame_number,
                                         map_op'.region.range.end_frame_number,
                                         map_op'.region.region_type)
             IN  IF targets # {}
                 THEN memory_map' = Extended(memory_map, Min(targets), map_op'.region)
                 ELSE /\ memory_map.next_entry_index < entries_len(memory_map)
                      /\ memory_map' \in sort(Appended(memory_map, map_op'.region))]_vars

\* Usable [1, 3) was added to the map Usable [0, 1), Kernel [1, 2): the first
\* entry, not the last, took it in.
C17_Witness ==
    /\ map_op.name = "add_region" /\ map_op.ok
    /\ map_op.region = MemoryRegion(1, 3, Usable)
    /\ map_op.before.name = "add_region"
    /\ memory_map.next_entry_index = 2
    /\ memory_map.entries[1] = MemoryRegion(0, 3, Usable)
    /\ memory_map.entries[2] = MemoryRegion(1, 2, "Kernel")

(***************************************************************************)
(* C18.  mark_allocated_region(r) fails fatally, without returning,        *)
(* whenever r overlaps an existing region that is not Usable and whose     *)
(* kind differs from the kind of r, also when r overlaps a Usable region   *)
(* that precedes it in the map as well.                                    *)
(* The loop decides on the first region that r overlaps: when that one is  *)
(* Usable the call changes it and returns, and the regions behind it are   *)
(* never compared with r.                                                  *)
(***************************************************************************)
MarkCalled == map_calls' = map_calls + 1 /\ map_op'.name = "mark_allocated_region"

OverlapsForeignRegion(m, region) ==
    \E i \in Visible(m) :
        /\ m.entries[i].region_type \notin {Usable, region.region_type}
        /\ Overlap(m.entries[i], region)

\* The claim for the maps of non-empty, pairwise disjoint regions.
C18_OverlapWithForeignRegionIsFatal ==
    [][(/\ MarkCalled
        /\ WellFormed(memory_map)
        /\ OverlapsForeignRegion(memory_map, map_op'.region)) => ~map_op'.ok]_vars

(***************************************************************************)
(* C19.  Starting from a map whose entries all satisfy                     *)
(* start_frame <= end_frame, after any sequence of add_region and          *)
(* mark_allocated_region calls with arguments that satisfy                 *)
(* start_frame < end_frame, every entry of the map still satisfies         *)
(* start_frame <= end_frame.  Stated as the step of the induction: a call  *)
(* with such an argument on such a map leaves such a map.                  *)
(* The branch for a region that starts before a Usable region moves the    *)
(* start of the Usable region to the end of the new one, also when the new *)
(* one ends behind the Usable region.                                      *)
(***************************************************************************)
NoInvertedRange(m) ==
    \A i \in DOMAIN m.entries :
        m.entries[i].range.start_frame_number <= m.entries[i].range.end_frame_number

C19_NoInvertedRange ==
    [][(/\ map_calls' = map_calls + 1
        /\ map_op'.region.range.start_frame_number < map_op'.region.range.end_frame_number
        /\ NoInvertedRange(memory_map)) => NoInvertedRange(memory_map')]_vars

(***************************************************************************)
(* C20.  For every PT_LOAD segment with mem_size > 0 that elf_load loads,  *)
(* the frame range recorded in the memory map with the given kind contains *)
(* every 4 KiB frame that holds a byte of                                  *)
(* [physical_addr, physical_addr + mem_size), the frame of the last byte   *)
(* included when physical_addr + mem_size - 1 is page-aligned.             *)
(* The code ends the range at the aligned-up address of the last byte,     *)
(* which is the address of the last byte itself when that is page-aligned: *)
(* the frame of the last byte is then left out.                            *)
(***************************************************************************)
SegmentFrames(segment) ==
    (segment.physical_addr \div PAGE_SIZE)
        ..((segment.physical_addr + segment.mem_size - 1) \div PAGE_SIZE)

Recorded(m, frame, region_type) ==
    \E i \in Visible(m) :
        /\ m.entries[i].region_type = region_type
        /\ frame \in FramesOf(m.entries[i].range)

C20_SegmentFramesRecorded ==
    (vm_op.name = "elf_load" /\ vm_op.returned /\ vm_op.result.ok)
        => \A k \in DOMAIN vm_op.elf.phdrs :
              (vm_op.elf.phdrs[k].type = "Load" /\ vm_op.elf.phdrs[k].mem_size > 0)
                 => \A frame \in SegmentFrames(vm_op.elf.phdrs[k]) :
                       Recorded(memory_map, frame, vm_op.region_type)

(***************************************************************************)
(* C21.  When the file has a PT_INTERP program header, at any position     *)
(* among the headers, elf_load fails with NotAStaticBinary and has neither *)
(* copied any segment bytes into guest memory nor changed the memory map.  *)
(* The code meets the headers in the order of the file: the PT_LOAD        *)
(* segments in front of the PT_INTERP header are marked and copied before  *)
(* the call fails.  (Stated for the calls that return.)                    *)
(***************************************************************************)
HasInterp(elf) == \E k \in DOMAIN elf.phdrs : elf.phdrs[k].type = "Interp"

C21_InterpFailsBeforeLoading ==
    [][(/\ vm_op'.name = "elf_load" /\ vm_op.name = "vm_create"
        /\ vm_op'.returned
        /\ HasInterp(vm_op'.elf))
          => /\ vm_op'.result = Err("NotAStaticBinary")
             /\ host_bytes' = host_bytes
             /\ memory_map' = memory_map]_vars

(***************************************************************************)
(* SpecBoot: KvmVm::vm_create_default.  The VM is created, the application *)
(* and then the kernel are loaded, and vcpu_add_default hands the sorted   *)
(* copy of the memory map to the guest in BootInfo.  The files have one    *)
(* program header each.                                                    *)
(***************************************************************************)
BootFiles == {phdrs \in ElfFiles : Len(phdrs) = 1}

InitBoot ==
    /\ \E vm \in vm_create(VmPhyPages, HostArea(0)) :
          /\ userspace_mem_regions = vm.regions
          /\ memory_map = vm.map
          /\ host_bytes = vm.mem
    /\ map_op = [name |-> "new", region |-> MemoryRegion_empty, ok |-> TRUE, before |-> NoCall]
    /\ map_calls = 0
    /\ vm_op = [name |-> "vm_create", returned |-> TRUE]
    /\ syscall_page = [kind |-> "none"]
    /\ stdio = <<>>
    /\ NoGuest
    /\ NoKernel

BootLoad(phdrs, region_type) ==
    /\ \E x \in elf_load(userspace_mem_regions, memory_map, host_bytes, ElfFile(phdrs),
                         region_type, DEFAULT_GUEST_PAGE_SIZE) :
          /\ memory_map' = x.map
          /\ host_bytes' = x.mem
          /\ vm_op' = [name |-> "elf_load", elf |-> ElfFile(phdrs),
                       region_type |-> region_type,
                       result |-> x.result, returned |-> x.returned]
    /\ UNCHANGED <<map_op, map_calls, userspace_mem_regions, syscallVars, guestVars, kernelVars>>

\* vm.elf_load(elf_name, MemoryRegionType::App)
LoadApp ==
    /\ vm_op.name = "vm_create"
    /\ \E phdrs \in BootFiles : BootLoad(phdrs, "App")

\* vm.elf_load(kernel_name, MemoryRegionType::Kernel)
LoadKernel ==
    /\ vm_op.name = "elf_load" /\ vm_op.region_type = "App"
    /\ vm_op.returned /\ vm_op.result.ok
    /\ \E phdrs \in BootFiles : BootLoad(phdrs, "Kernel")

\* vcpu_add_default: BootInfo holds a clone of the memory map, sorted.
VcpuAddDefault ==
    /\ vm_op.name = "elf_load" /\ vm_op.region_type = "Kernel"
    /\ vm_op.returned /\ vm_op.result.ok
    /\ \E sorted \in sort(memory_map) :
          syscall_page' = [kind |-> "BootInfo", memory_map |-> sorted]
    /\ vm_op' = [name |-> "vcpu_add_default", returned |-> TRUE]
    /\ UNCHANGED <<mapVars, userspace_mem_regions, host_bytes, stdio, guestVars, kernelVars>>

NextBoot == LoadApp \/ LoadKernel \/ VcpuAddDefault

SpecBoot == InitBoot /\ [][NextBoot]_vars

(***************************************************************************)
(* C22.  In the memory map handed to the guest in BootInfo by              *)
(* vm_create_default, no frame that holds the initial page tables at       *)
(* 0x9000, 0xA000 and 0xB000 is classified Usable, so that the frame       *)
(* allocator of the guest can never hand such a frame out.                 *)
(* vm_create marks frame 0 and the hypercall page and nothing else: the    *)
(* frames of the page tables stay in the Usable region.                    *)
(***************************************************************************)
PageTableFrames == {PML4_START \div PAGE_SIZE, PDPTE_START \div PAGE_SIZE, PDE_START \div PAGE_SIZE}

C22_PageTablesNotUsable ==
    (vm_op.name = "vcpu_add_default" /\ syscall_page.kind = "BootInfo")
        => PageTableFrames \cap UsableFrames(syscall_page.memory_map) = {}

(***************************************************************************)
(* C23: vm_userspace_mem_region_add with a slot id no recorded slot has    *)
(* and a range [guest_paddr, guest_paddr + npages * page_size) that shares *)
(* no address with the range of a recorded slot is not refused by the loop *)
(* over the recorded slots: it returns Ok unless mmap or the ioctl failed. *)
(* The ranges that start where a slot ends, or end where one starts, are   *)
(* among them.                                                             *)
(***************************************************************************)
C23_DisjointRangeSucceeds ==
    [][(/\ AddSlotCalled
        /\ vm_op'.returned
        /\ SameId = {}
        /\ Overlapped = {})
          => \/ vm_op'.result.ok
             \/ vm_op'.result.err \in {"MmapFailed", "KvmIoctl"}]_vars

(***************************************************************************)
(* The guest kernel (kernel/src/arch/x86_64/mod.rs).  Its addresses are    *)
(* those of VirtAddrs, its pages those of Pages; the page tables are the   *)
(* tables that exist below the level-4 table and the leaf entries.  The    *)
(* editor of the page tables is not among the sources and is modelled as   *)
(* documented: map_to walks the hierarchy creating absent tables from the  *)
(* allocator, fails with PageAlreadyMapped on a present leaf with another  *)
(* frame or other flags, and installs the leaf otherwise; update_flags     *)
(* changes the flags of a leaf only.                                       *)
(***************************************************************************)
PRESENT == "PRESENT"
WRITABLE == "WRITABLE"
USER_ACCESSIBLE == "USER_ACCESSIBLE"
NO_EXECUTE == "NO_EXECUTE"

\* Entries of one page table (512 in the source).
EntriesPerTable == 4

\* The tables below the level-4 table that the walk to a page goes through.
parent_tables(page) ==
    <<<<3, (page \div Size4KiB) \div (EntriesPerTable * EntriesPerTable * EntriesPerTable)>>,
      <<2, (page \div Size4KiB) \div (EntriesPerTable * EntriesPerTable)>>,
      <<1, (page \div Size4KiB) \div EntriesPerTable>>>>

EmptyPageTable == [tables |-> <<>>, leaf |-> <<>>]

With(f, k, v) == [x \in DOMAIN f \cup {k} |-> IF x = k THEN v ELSE f[x]]

\* F of the value v, which is computed once.
At(v, F(_)) == CHOOSE r \in {F(x) : x \in {v}} : TRUE

\* create_next_table for the tables of the walk from level k down: the page
\* table and the allocator position after it, or FrameAllocationFailed.
RECURSIVE create_tables(_, _, _, _, _, _)
create_tables(pt, page, k, parent_flags, m, next) ==
    IF k > 3 THEN [ok |-> TRUE, pt |-> pt, next |-> next]
    ELSE IF parent_tables(page)[k] \in DOMAIN pt.tables
    THEN create_tables(pt, page, k + 1, parent_flags, m, next)
    ELSE At(allocate_frame(m, next), LAMBDA a :
             IF ~a.frame.some
             THEN [ok |-> FALSE, pt |-> pt, next |-> a.next]
             ELSE create_tables([pt EXCEPT !.tables =
                                    With(pt.tables, parent_tables(page)[k],
                                         [frame |-> a.frame.v,
                                          flags |-> {PRESENT, WRITABLE} \cup parent_flags])],
                                page, k + 1, parent_flags, m, a.next))

\* Mapper::map_to
map_to(pt, page, frame, flags, parent_flags, m, next) ==
    At(create_tables(pt, page, 1, parent_flags, m, next), LAMBDA t :
        IF ~t.ok
        THEN [result |-> Err("FrameAllocationFailed"), pt |-> t.pt, next |-> t.next]
        ELSE IF /\ page \in DOMAIN t.pt.leaf
                /\ t.pt.leaf[page] # [frame |-> frame, flags |-> flags]
        THEN [result |-> Err("PageAlreadyMapped"), pt |-> t.pt, next |-> t.next]
        ELSE [result |-> Ok("flush"),
              pt |-> [t.pt EXCEPT !.leaf = With(t.pt.leaf, page,
                                                [frame |-> frame, flags |-> flags])],
              next |-> t.next])

\* Mapper::update_flags
update_flags(pt, page, flags) ==
    IF page \in DOMAIN pt.leaf
    THEN [result |-> Ok("flush"), pt |-> [pt EXCEPT !.leaf[page].flags = flags]]
    ELSE [result |-> Err("PageNotMapped"), pt |-> pt]

\* The pages an inclusive range yields, in order; the ranges of the kernel
\* end below the last page.
range_pages(start_page, end_page) ==
    [k \in 1..(IF start_page <= end_page
               THEN (end_page - start_page) \div Size4KiB + 1
               ELSE 0) |-> start_page + (k - 1) * Size4KiB]

\* One turn of the mapping loops: allocate_frame, then map_to with the frame.
map_page(pt, page, flags, parent_flags, m, next) ==
    At(allocate_frame(m, next), LAMBDA a :
        IF ~a.frame.some
        THEN [result |-> Err("FrameAllocationFailed"), pt |-> pt, next |-> a.next]
        ELSE map_to(pt, page, a.frame.v, flags, parent_flags, m, a.next))

(***************************************************************************)
(* SpecInit: the bring-up of the guest kernel, init and                    *)
(* init_after_stack_swap, one step per call and per turn of a mapping      *)
(* loop, over the memory maps of BootMaps.  The heap and the stack lie at  *)
(* pages of the model's address space and are a few pages long.            *)
(***************************************************************************)
HeapStartPage == 1
HeapPages == 2
StackStartPage == 4
StackPages == 3
\* Frames of the Usable region of the memory map in BootInfo: at most this many.
MaxBootFrames == 11

HEAP_START == HeapStartPage * Size4KiB
HEAP_SIZE == HeapPages * Size4KiB
STACK_START == StackStartPage * Size4KiB
STACK_SIZE == StackPages * Size4KiB

\* BootInfo.memory_map: the boot stack, then the free frames.
BootMaps ==
    {[entries |-> [i \in 1..MapCapacity |->
                      IF i = 1 THEN MemoryRegion(0, k, "KernelStack")
                      ELSE IF i = 2 THEN MemoryRegion(k, k + u, Usable)
                      ELSE MemoryRegion_empty],
      next_entry_index |-> 2] : k \in 1..2, u \in 0..MaxBootFrames}

\* init_heap: the pages of the heap.
heap_page_range ==
    range_pages(containing_address(HEAP_START),
                containing_address(HEAP_START + HEAP_SIZE - 1))

\* The pages of the stack without its last page.
stack_page_range_short ==
    range_pages(containing_address(STACK_START) + Size4KiB,
                containing_address(STACK_START + STACK_SIZE - 1) - Size4KiB)

\* init_stack: the pages of the stack behind the guard page.
stack_page_range ==
    range_pages(containing_address(STACK_START) + Size4KiB,
                containing_address(STACK_START + STACK_SIZE - 1))

\* init_stack: stack_end, which it stores in the TSS.
stack_end == STACK_START + STACK_SIZE - 1

\* init: the stack pointer it hands to context_switch.
context_switch_stack == STACK_START + STACK_SIZE

InitInit ==
    /\ memory_map \in BootMaps
    /\ map_op = [name |-> "sort", region |-> MemoryRegion_empty, ok |-> TRUE, before |-> NoCall]
    /\ map_calls = 0
    /\ NoVm
    /\ frame_allocator = [name |-> "none"]
    /\ page_range = [name |-> "none"]
    /\ pc = <<"init_offset_pagetable">>
    /\ locals = <<[pages |-> <<>>]>>
    /\ page_table = EmptyPageTable
    /\ NEXT_MMAP = 0
    /\ FRAME_ALLOCATOR = None
    /\ MAPPER = None
    /\ machine = [offset_table |-> FALSE, gdt |-> FALSE, syscall_msrs |-> FALSE,
                  idt |-> FALSE, ALLOCATOR |-> FALSE, tss_loaded |-> FALSE,
                  privilege_stack_table0 |-> 0, rsp |-> None,
                  ENTRY_POINT |-> FALSE, entered |-> FALSE]

\* A step of init that sets up a part of the machine and goes on.
Setup(at, field, to) ==
    /\ pc[1] = at
    /\ machine' = [machine EXCEPT ![field] = TRUE]
    /\ pc' = <<to>>
    /\ UNCHANGED <<mapVars, vmVars, syscallVars, guestVars, locals, page_table,
                   NEXT_MMAP, FRAME_ALLOCATOR, MAPPER>>

InitOffsetPagetable == Setup("init_offset_pagetable", "offset_table", "gdt::init")
GdtInit == Setup("gdt::init", "gdt", "syscall::init")
SyscallInit == Setup("syscall::init", "syscall_msrs", "interrupts::init")
InterruptsInit == Setup("interrupts::init", "idt", "memory::init")

\* MAPPER.replace(memory::init(..)); BootInfoFrameAllocator::init(..); the
\* range of init_heap.
MemoryInit ==
    /\ pc[1] = "memory::init"
    /\ MAPPER' = Some("OffsetPageTable")
    /\ frame_allocator' = [name |-> "init", next |-> 0, frames |-> <<>>]
    /\ locals' = <<[pages |-> heap_page_range]>>
    /\ pc' = <<"init_heap">>
    /\ UNCHANGED <<mapVars, vmVars, syscallVars, page_range, page_table,
                   NEXT_MMAP, FRAME_ALLOCATOR, machine>>

\* One turn of a loop that maps the pages of locals: the page is mapped, or
\* the function returns the error and init panics (expect).
MapNext(at, flags, done) ==
    /\ pc[1] = at
    /\ locals[1].pages # <<>>
    /\ \E x \in {map_page(page_table, Head(locals[1].pages), flags, {},
                           memory_map, frame_allocator.next)} :
           /\ page_table' = x.pt
           /\ frame_allocator' = [frame_allocator EXCEPT !.name = "allocate_frame",
                                                         !.next = x.next]
           /\ locals' = <<[pages |-> Tail(locals[1].pages)]>>
           /\ pc' = <<IF ~x.result.ok THEN "panic"
                      ELSE IF Tail(locals[1].pages) = <<>> THEN done ELSE at>>
    /\ UNCHANGED <<mapVars, vmVars, syscallVars, page_range,
                   NEXT_MMAP, FRAME_ALLOCATOR, MAPPER, machine>>

HeapMapPage == MapNext("init_heap", {PRESENT, WRITABLE}, "ALLOCATOR.init")

\* crate::ALLOCATOR.lock().init(HEAP_START, HEAP_SIZE); the range of init_stack.
HeapAllocatorInit ==
    /\ pc[1] = "ALLOCATOR.init"
    /\ machine' = [machine EXCEPT !.ALLOCATOR = TRUE]
    /\ locals' = <<[pages |-> stack_page_range]>>
    /\ pc' = <<"init_stack">>
    /\ UNCHANGED <<mapVars, vmVars, syscallVars, guestVars, page_table,
                   NEXT_MMAP, FRAME_ALLOCATOR, MAPPER>>

StackMapPage == MapNext("init_stack", {PRESENT, WRITABLE}, "guard_page")

\* init_stack: the guard page.
StackMapGuard ==
    /\ pc[1] = "guard_page"
    /\ \E x \in {map_page(page_table, containing_address(STACK_START), {PRESENT}, {},
                           memory_map, frame_allocator.next)} :
           /\ page_table' = x.pt
           /\ frame_allocator' = [frame_allocator EXCEPT !.name = "allocate_frame",
                                                         !.next = x.next]
           /\ pc' = <<IF x.result.ok THEN "load_tss" ELSE "panic">>
    /\ UNCHANGED <<mapVars, vmVars, syscallVars, page_range, locals,
                   NEXT_MMAP, FRAME_ALLOCATOR, MAPPER, machine>>

\* init_stack: GDT.load(), TSS.privilege_stack_table[0] = stack_end, load_tss.
LoadTss ==
    /\ pc[1] = "load_tss"
    /\ machine' = [machine EXCEPT !.privilege_stack_table0 = stack_end,
                                  !.tss_loaded = TRUE]
    /\ pc' = <<"replace">>
    /\ UNCHANGED <<mapVars, vmVars, syscallVars, guestVars, locals, page_table,
                   NEXT_MMAP, FRAME_ALLOCATOR, MAPPER>>

\* FRAME_ALLOCATOR.replace(frame_allocator); ENTRY_POINT.replace(entry_point)
ReplaceGlobals ==
    /\ pc[1] = "replace"
    /\ FRAME_ALLOCATOR' = Some([next |-> frame_allocator.next])
    /\ frame_allocator' = [frame_allocator EXCEPT !.name = "moved"]
    /\ machine' = [machine EXCEPT !.ENTRY_POINT = TRUE]
    /\ pc' = <<"context_switch">>
    /\ UNCHANGED <<mapVars, vmVars, syscallVars, page_range, locals, page_table,
                   NEXT_MMAP, MAPPER>>

\* context_switch(init_after_stack_swap, STACK_START + STACK_SIZE)
ContextSwitch ==
    /\ pc[1] = "context_switch"
    /\ machine' = [machine EXCEPT !.rsp = Some(context_switch_stack)]
    /\ pc' = <<"init_after_stack_swap">>
    /\ UNCHANGED <<mapVars, vmVars, syscallVars, guestVars, locals, page_table,
                   NEXT_MMAP, FRAME_ALLOCATOR, MAPPER>>

\* init_after_stack_swap: ENTRY_POINT.take(), set_region_type_usable(KernelStack)
ReclaimKernelStack ==
    /\ pc[1] = "init_after_stack_swap"
    /\ machine' = [machine EXCEPT !.ENTRY_POINT = FALSE]
    /\ memory_map' = set_region_type_usable(memory_map, "KernelStack")
    /\ map_op' = [name |-> "set_region_type_usable",
                  region |-> MemoryRegion_empty, ok |-> TRUE, before |-> Before]
    /\ pc' = <<"entry_point">>
    /\ UNCHANGED <<map_calls, vmVars, syscallVars, guestVars, locals, page_table,
                   NEXT_MMAP, FRAME_ALLOCATOR, MAPPER>>

\* entry_point(mapper, frame_allocator)
EnterEntryPoint ==
    /\ pc[1] = "entry_point"
    /\ machine' = [machine EXCEPT !.entered = TRUE]
    /\ pc' = <<"exec_app">>
    /\ UNCHANGED <<mapVars, vmVars, syscallVars, guestVars, locals, page_table,
                   NEXT_MMAP, FRAME_ALLOCATOR, MAPPER>>

NextInit ==
    \/ InitOffsetPagetable \/ GdtInit \/ SyscallInit \/ InterruptsInit \/ MemoryInit
    \/ HeapMapPage \/ HeapAllocatorInit \/ StackMapPage \/ StackMapGuard \/ LoadTss
    \/ ReplaceGlobals \/ ContextSwitch \/ ReclaimKernelStack \/ EnterEntryPoint

SpecInit == InitInit /\ [][NextInit]_vars

\* The pages of the heap, and those of the stack behind its first page.
HeapPageSet == {p \in Pages : HEAP_START <= p /\ p < HEAP_START + HEAP_SIZE}
StackPageSet == {p \in Pages : STACK_START + Size4KiB <= p /\ p < STACK_START + STACK_SIZE}
Mapped(pages) == pages \subseteq DOMAIN page_table.leaf
SomeMapped(pages) == pages \cap DOMAIN page_table.leaf # {}
GuardMapped == containing_address(STACK_START) \in DOMAIN page_table.leaf
HasKernelStack ==
    \E i \in Visible(memory_map) : memory_map.entries[i].region_type = "KernelStack"

(***************************************************************************)
(* C24: bring-up runs in one order: the offset page table, the GDT, the    *)
(* syscall MSRs, the IDT, the heap pages and then the global allocator,    *)
(* the stack pages, the guard page and then the TSS, the stack switch.     *)
(* The stack switch comes after every stack page is mapped; the            *)
(* KernelStack regions become Usable after the switch and before the       *)
(* entry point is invoked.                                                 *)
(***************************************************************************)
C24_BringUpOrder ==
    /\ machine.gdt => machine.offset_table
    /\ machine.syscall_msrs => machine.gdt
    /\ machine.idt => machine.syscall_msrs
    /\ (page_table # EmptyPageTable) => machine.idt
    /\ machine.ALLOCATOR => Mapped(HeapPageSet)
    /\ (SomeMapped(StackPageSet) \/ GuardMapped) => machine.ALLOCATOR
    /\ GuardMapped => Mapped(StackPageSet)
    /\ machine.tss_loaded => GuardMapped
    /\ machine.rsp.some => /\ machine.tss_loaded
                           /\ Mapped(StackPageSet)
                           /\ machine.rsp.v = STACK_START + STACK_SIZE
    /\ ~HasKernelStack => machine.rsp.some
    /\ machine.entered => ~HasKernelStack

\* The entry point was invoked on the new stack.
C24_Witness ==
    /\ pc[1] = "exec_app" /\ machine.entered
    /\ machine.rsp = Some(STACK_START + STACK_SIZE)

(***************************************************************************)
(* C25: once init_stack returned Ok, TSS.privilege_stack_table[0] is       *)
(* STACK_START + STACK_SIZE, the address that init hands to context_switch *)
(* as the top of the new stack.                                            *)
(***************************************************************************)
C25_TssStackIsTheStackTop ==
    machine.tss_loaded
        => /\ machine.privilege_stack_table0 = STACK_START + STACK_SIZE
           /\ machine.privilege_stack_table0 = context_switch_stack

(***************************************************************************)
(* exec_app, map_user_segment and mmap_user.                               *)
(***************************************************************************)
\* A mapping loop over pages: every page is mapped, or the first error is
\* returned.  The loops of map_user_segment and mmap_user go on after
\* PageAlreadyMapped (tolerant); the frame allocated for the page is lost.
RECURSIVE map_range(_, _, _, _, _, _, _)
map_range(pt, pages, flags, parent_flags, m, next, tolerant) ==
    IF pages = <<>> THEN [result |-> Ok("unit"), pt |-> pt, next |-> next]
    ELSE At(map_page(pt, Head(pages), flags, parent_flags, m, next), LAMBDA x :
             IF x.result.ok \/ (tolerant /\ x.result = Err("PageAlreadyMapped"))
             THEN map_range(x.pt, Tail(pages), flags, parent_flags, m, x.next, tolerant)
             ELSE x)

\* for page in page_range { update_flags(page, flags).unwrap().flush() }
RECURSIVE update_range(_, _, _)
update_range(pt, pages, flags) ==
    IF pages = <<>> THEN [result |-> Ok("unit"), pt |-> pt]
    ELSE At(update_flags(pt, Head(pages), flags), LAMBDA x :
             IF x.result.ok THEN update_range(x.pt, Tail(pages), flags)
             ELSE [result |-> Err("panic"), pt |-> x.pt])

ProgramHeader64(type, virtual_addr, mem_size, file_size, write, execute) ==
    [type |-> type, virtual_addr |-> virtual_addr, mem_size |-> mem_size,
     file_size |-> file_size, write |-> write, execute |-> execute]

\* Flags that keep the page writable after the copy.
copy_in_flags(segment) ==
    {PRESENT, USER_ACCESSIBLE, WRITABLE}
        \cup (IF ~segment.execute THEN {NO_EXECUTE} ELSE {})

\* map_user_segment: page_table_flags
page_table_flags(segment) ==
    {PRESENT, USER_ACCESSIBLE}
        \cup (IF ~segment.execute THEN {NO_EXECUTE} ELSE {})
        \cup (IF segment.write THEN {WRITABLE} ELSE {})

\* A mark that is set to the end of the segment, whatever it was.
last_segment_end(next_mmap, virt_end_addr) == virt_end_addr

\* map_user_segment: if NEXT_MMAP < virt_end_addr { NEXT_MMAP = virt_end_addr }
high_water_mark(next_mmap, virt_end_addr) ==
    IF next_mmap < virt_end_addr THEN virt_end_addr ELSE next_mmap

\* The pages of a segment of mem_size > 0.
segment_pages(segment) ==
    range_pages(containing_address(segment.virtual_addr),
                containing_address(segment.virtual_addr + segment.mem_size - 1))

\* map_user_segment: the result, the page table, the allocator position and
\* NEXT_MMAP after the call.
map_user_segment(pt, next_mmap, segment, m, next) ==
    IF segment.type # "Load"
    THEN [result |-> Ok("None"), pt |-> pt, next |-> next, NEXT_MMAP |-> next_mmap]
    ELSE LET mark == high_water_mark(next_mmap,
                        align_up(segment.virtual_addr + segment.mem_size, Size4KiB))
         IN  At(map_range(pt, segment_pages(segment),
                          page_table_flags(segment) \cup {WRITABLE}, {USER_ACCESSIBLE},
                          m, next, TRUE), LAMBDA x :
             IF ~x.result.ok
             THEN [result |-> x.result, pt |-> x.pt, next |-> x.next, NEXT_MMAP |-> mark]
             ELSE At(update_range(x.pt, segment_pages(segment), page_table_flags(segment)),
                     LAMBDA u :
                        [result |-> IF u.result.ok THEN Ok("None") ELSE u.result,
                         pt |-> u.pt, next |-> x.next, NEXT_MMAP |-> mark]))

\* mmap_user on one thread: the address it returns, or the panic of an
\* unwrap, and the page table, the allocator position and NEXT_MMAP after it.
mmap_user(pt, next_mmap, len, m, next) ==
    At(map_range(pt,
                 range_pages(containing_address(next_mmap),
                             containing_address(next_mmap + len - 1)),
                 {PRESENT, WRITABLE, USER_ACCESSIBLE}, {USER_ACCESSIBLE},
                 m, next, TRUE), LAMBDA x :
        IF x.result.ok
        THEN [result |-> Ok(next_mmap), pt |-> x.pt, next |-> x.next,
              NEXT_MMAP |-> next_mmap + len]
        ELSE [result |-> Err("panic"), pt |-> x.pt, next |-> x.next,
              NEXT_MMAP |-> next_mmap])

\* The bytes of a u64 in memory, lowest first.
RECURSIVE le_bytes(_, _)
le_bytes(v, n) == IF n = 0 THEN <<>> ELSE <<v % 256>> \o le_bytes(v \div 256, n - 1)

(***************************************************************************)
(* SpecUser: exec_app on an application of at most MaxSegments program     *)
(* headers, and the mmap_user calls of the application once it runs.       *)
(***************************************************************************)
MaxSegments == 2
\* Where a segment starts, and how long it is: segments within a page, over
\* a whole page and over the boundary of two pages.
SegAddrs == {0, Size4KiB \div 2, Size4KiB, Size4KiB + Size4KiB \div 2}
SegSizes == {Size4KiB \div 2, Size4KiB}
\* The user stack (vmbootspec::layout) lies above the segments and the mmaps.
UserStackPage == 6
UserStackPages == 1
USER_STACK_OFFSET == UserStackPage * Size4KiB
USER_STACK_SIZE == UserStackPages * Size4KiB
MmapLens == {1, Size4KiB}
\* As many mmap_user calls as there are lengths to choose from.
MaxMmapCalls == Cardinality(MmapLens)
\* Frames of the Usable region: few, so that an allocation fails, or enough.
MinUserFrames == 6
MaxUserFrames == 16
RdRandValues == {0, 258}

Segments ==
    {ProgramHeader64("Load", addr, size, file_size, w, x) :
        addr \in SegAddrs, size \in SegSizes,
        file_size \in {0}, w \in BOOLEAN, x \in BOOLEAN}
    \cup {ProgramHeader64("Note", 0, 0, 0, FALSE, FALSE)}

\* The program headers of an application: its PT_LOAD headers are in
\* ascending order of p_vaddr, as the ELF format has them.
UserFiles ==
    {file \in UNION {[1..n -> Segments] : n \in 0..MaxSegments} :
        \A i, j \in DOMAIN file :
            (i < j /\ file[i].type = "Load" /\ file[j].type = "Load")
                => file[i].virtual_addr <= file[j].virtual_addr}

UserMaps ==
    {[entries |-> [i \in 1..MapCapacity |->
                      IF i = 1 THEN MemoryRegion(1, 1 + u, Usable) ELSE MemoryRegion_empty],
      next_entry_index |-> 1] : u \in {MinUserFrames, MaxUserFrames}}

InitUser ==
    /\ memory_map \in UserMaps
    /\ map_op = [name |-> "sort", region |-> MemoryRegion_empty, ok |-> TRUE, before |-> NoCall]
    /\ map_calls = 0
    /\ NoVm
    /\ NoGuest
    /\ pc = <<"exec_app">>
    /\ \E file \in UserFiles :
          locals = <<[segments |-> file, loaded |-> <<>>, last |-> [name |-> "none"],
                      r1 |-> 0, r2 |-> 0, random |-> <<>>, ra |-> <<>>, mmaps |-> <<>>]>>
    /\ page_table = EmptyPageTable
    /\ NEXT_MMAP = 0
    /\ FRAME_ALLOCATOR = Some([next |-> 0])
    /\ MAPPER = Some("OffsetPageTable")
    /\ machine = [mode |-> "kernel", at_random |-> <<>>]

\* exec_app: the pages of the user stack.
MapUserStack ==
    /\ pc[1] = "exec_app"
    /\ \E x \in {map_range(page_table,
                          range_pages(containing_address(USER_STACK_OFFSET),
                                      containing_address(USER_STACK_OFFSET
                                                            + USER_STACK_SIZE - 256)),
                          {PRESENT, WRITABLE, USER_ACCESSIBLE}, {USER_ACCESSIBLE},
                          memory_map, FRAME_ALLOCATOR.v.next, FALSE)} :
           /\ page_table' = x.pt
           /\ FRAME_ALLOCATOR' = Some([next |-> x.next])
           /\ pc' = <<IF x.result.ok THEN "program_iter" ELSE "panic">>
    /\ UNCHANGED <<mapVars, vmVars, syscallVars, guestVars, locals, NEXT_MMAP, MAPPER, machine>>

\* exec_app: map_user_segment(&segment, ..).unwrap() for the next program header.
MapUserSegment ==
    /\ pc[1] = "program_iter"
    /\ locals[1].segments # <<>>
    /\ \E segment \in {Head(locals[1].segments)} :
       \E x \in {map_user_segment(page_table, NEXT_MMAP, segment,
                                  memory_map, FRAME_ALLOCATOR.v.next)} :
           /\ page_table' = x.pt
           /\ NEXT_MMAP' = x.NEXT_MMAP
           /\ FRAME_ALLOCATOR' = Some([next |-> x.next])
           /\ locals' = <<[locals[1] EXCEPT
                              !.segments = Tail(@),
                              !.loaded = IF x.result.ok THEN Append(@, segment) ELSE @,
                              !.last = [name |-> "map_user_segment", segment |-> segment,
                                        result |-> x.result]]>>
           /\ pc' = <<IF x.result.ok THEN "program_iter" ELSE "panic">>
    /\ UNCHANGED <<mapVars, vmVars, syscallVars, guestVars, MAPPER, machine>>

\* exec_app: the two reads of RDRAND.
RdRand ==
    /\ pc[1] = "program_iter"
    /\ locals[1].segments = <<>>
    /\ \E r1 \in RdRandValues, r2 \in RdRandValues :
          locals' = <<[locals[1] EXCEPT !.r1 = r1, !.r2 = r2,
                                        !.last = [name |-> "RdRand"]]>>
    /\ pc' = <<"random">>
    /\ UNCHANGED <<mapVars, vmVars, syscallVars, guestVars, page_table, NEXT_MMAP,
                   FRAME_ALLOCATOR, MAPPER, machine>>

\* exec_app: crt0sp.random = Some([0u8; 16]); ra = &mut crt0sp.random.unwrap();
\* the bytes of r1 and r2 are copied into ra.  Option<[u8; 16]> is Copy and
\* unwrap takes the Option by value: ra borrows a copy of the array.
SetRandom ==
    /\ pc[1] = "random"
    /\ locals' = <<[locals[1] EXCEPT
                       !.random = [i \in 1..16 |-> 0],
                       !.ra = le_bytes(locals[1].r1, 8) \o le_bytes(locals[1].r2, 8),
                       !.last = [name |-> "random"]]>>
    /\ pc' = <<"serialize">>
    /\ UNCHANGED <<mapVars, vmVars, syscallVars, guestVars, page_table, NEXT_MMAP,
                   FRAME_ALLOCATOR, MAPPER, machine>>

\* exec_app: crt0sp.serialize(sp_slice); syscall::usermode(entry_point, sp, 0)
Usermode ==
    /\ pc[1] = "serialize"
    /\ machine' = [mode |-> "user", at_random |-> locals[1].random]
    /\ locals' = <<[locals[1] EXCEPT !.r1 = 0, !.r2 = 0, !.random = <<>>, !.ra = <<>>,
                                     !.last = [name |-> "usermode"]]>>
    /\ pc' = <<"usermode">>
    /\ UNCHANGED <<mapVars, vmVars, syscallVars, guestVars, page_table, NEXT_MMAP,
                   FRAME_ALLOCATOR, MAPPER>>

\* mmap_user(len), called for the application; the mmaps stay below the user stack.
MmapUser ==
    /\ pc[1] = "usermode"
    /\ Len(locals[1].mmaps) < MaxMmapCalls
    /\ \E len \in MmapLens :
          /\ NEXT_MMAP + len <= USER_STACK_OFFSET
          /\ \E x \in {mmap_user(page_table, NEXT_MMAP, len, memory_map,
                                   FRAME_ALLOCATOR.v.next)} :
                 /\ page_table' = x.pt
                 /\ NEXT_MMAP' = x.NEXT_MMAP
                 /\ FRAME_ALLOCATOR' = IF x.result.ok THEN Some([next |-> x.next]) ELSE None
                 /\ MAPPER' = IF x.result.ok THEN MAPPER ELSE None
                 /\ locals' = <<[locals[1] EXCEPT
                                    !.mmaps = IF x.result.ok
                                              THEN Append(@, [ret |-> x.result.val, len |-> len])
                                              ELSE @,
                                    !.last = [name |-> "mmap_user", len |-> len,
                                              result |-> x.result]]>>
                 /\ pc' = <<IF x.result.ok THEN "usermode" ELSE "panic">>
    /\ UNCHANGED <<mapVars, vmVars, syscallVars, guestVars, machine>>

NextUser == MapUserStack \/ MapUserSegment \/ RdRand \/ SetRandom \/ Usermode \/ MmapUser

SpecUser == InitUser /\ [][NextUser]_vars

\* The pages that hold a byte of [virtual_addr, align_up(virtual_addr + mem_size)).
PagesOf(segment) ==
    {p \in Pages : /\ p + Size4KiB > segment.virtual_addr
                   /\ p < align_up(segment.virtual_addr + segment.mem_size, Size4KiB)}

FlagsOf(page) == page_table.leaf[page].flags

MapUserSegmentReturnedOk ==
    /\ locals[1].last.name = "map_user_segment"
    /\ locals[1].last.result.ok
    /\ locals[1].last.segment.type = "Load"

(***************************************************************************)
(* C26: when map_user_segment returns Ok for a PT_LOAD segment of          *)
(* mem_size > 0, every page of the segment is mapped with Present and      *)
(* UserAccessible, with Writable exactly if the segment is writable and    *)
(* with NoExecute exactly if it is not executable, and with no other flag: *)
(* the Writable flag of the copy is gone unless the segment is writable.   *)
(***************************************************************************)
C26_SegmentPagesHaveTheSegmentFlags ==
    MapUserSegmentReturnedOk
        => \A p \in PagesOf(locals[1].last.segment) :
              /\ p \in DOMAIN page_table.leaf
              /\ FlagsOf(p) \subseteq {PRESENT, USER_ACCESSIBLE, WRITABLE, NO_EXECUTE}
              /\ PRESENT \in FlagsOf(p)
              /\ USER_ACCESSIBLE \in FlagsOf(p)
              /\ WRITABLE \in FlagsOf(p) <=> locals[1].last.segment.write
              /\ NO_EXECUTE \in FlagsOf(p) <=> ~locals[1].last.segment.execute

\* A read-only segment was loaded over a page that a writable segment had
\* mapped before.
C26_Witness ==
    /\ MapUserSegmentReturnedOk
    /\ ~locals[1].last.segment.write
    /\ Len(locals[1].loaded) = 2
    /\ locals[1].loaded[1].type = "Load" /\ locals[1].loaded[1].write
    /\ PagesOf(locals[1].loaded[1]) \cap PagesOf(locals[1].last.segment) # {}

(***************************************************************************)
(* C27: when exec_app enters user mode, no page of a PT_LOAD segment that  *)
(* is not writable is mapped Writable, and no page of an executable        *)
(* segment is mapped NoExecute, whatever the application is: also when two *)
(* segments of different permissions share a page.                         *)
(***************************************************************************)
C27_SegmentPermissionsAtUserEntry ==
    machine.mode = "user"
        => \A k \in DOMAIN locals[1].loaded :
              locals[1].loaded[k].type = "Load"
                 => \A p \in PagesOf(locals[1].loaded[k]) \cap DOMAIN page_table.leaf :
                       /\ ~locals[1].loaded[k].write => WRITABLE \notin FlagsOf(p)
                       /\ locals[1].loaded[k].execute => NO_EXECUTE \notin FlagsOf(p)

RangesOf(mmaps) == {<<mmaps[k].ret, mmaps[k].ret + mmaps[k].len>> : k \in DOMAIN mmaps}

(***************************************************************************)
(* C28: NEXT_MMAP never decreases; it is at least the page-aligned end of  *)
(* every segment loaded so far; a mmap_user call returns the NEXT_MMAP of  *)
(* before the call; the ranges [ret, ret + len) that the mmap_user calls   *)
(* returned share no address with one another or with a loaded segment.    *)
(***************************************************************************)
C28_NextMmapIsAHighWaterMark ==
    [][/\ NEXT_MMAP' >= NEXT_MMAP
       /\ \A k \in DOMAIN locals'[1].loaded :
             locals'[1].loaded[k].type = "Load"
                => NEXT_MMAP' >= align_up(locals'[1].loaded[k].virtual_addr
                                             + locals'[1].loaded[k].mem_size, Size4KiB)
       /\ (locals'[1].last.name = "mmap_user" /\ locals'[1].last.result.ok
              /\ Len(locals'[1].mmaps) > Len(locals[1].mmaps))
             => /\ locals'[1].last.result.val = NEXT_MMAP
                /\ locals'[1].mmaps[Len(locals'[1].mmaps)].ret = NEXT_MMAP
       /\ \A i, j \in DOMAIN locals'[1].mmaps :
             i # j => ~RangesOverlap(locals'[1].mmaps[i].ret, locals'[1].mmaps[i].len,
                                     locals'[1].mmaps[j].ret, locals'[1].mmaps[j].len)
       /\ \A i \in DOMAIN locals'[1].mmaps, k \in DOMAIN locals'[1].loaded :
             locals'[1].loaded[k].type = "Load"
                => ~RangesOverlap(locals'[1].mmaps[i].ret, locals'[1].mmaps[i].len,
                                  locals'[1].loaded[k].virtual_addr,
                                  locals'[1].loaded[k].mem_size)]_vars

\* Two mmap_user calls returned after two segments were loaded, the second
\* of which ends below the first.
C28_Witness ==
    /\ Len(locals[1].mmaps) = 2
    /\ Len(locals[1].loaded) = 2
    /\ locals[1].loaded[1].type = "Load" /\ locals[1].loaded[2].type = "Load"
    /\ locals[1].loaded[2].virtual_addr + locals[1].loaded[2].mem_size
          < locals[1].loaded[1].virtual_addr + locals[1].loaded[1].mem_size
    /\ locals[1].mmaps[1].len = 1

(***************************************************************************)
(* C29: the 16 bytes of AT_RANDOM that exec_app serializes into the        *)
(* initial stack of the application are the 8 bytes of the first RDRAND    *)
(* read followed by the 8 bytes of the second.                             *)
(***************************************************************************)
C29_AtRandomHoldsTheTwoReads ==
    [][(pc[1] = "serialize" /\ pc'[1] = "usermode")
          => machine'.at_random = le_bytes(locals[1].r1, 8) \o le_bytes(locals[1].r2, 8)]_vars

(***************************************************************************)
(* SpecMmap: mmap_user called by the threads of Threads, each at most      *)
(* once, after exec_app loaded an application of one segment.  The statics *)
(* are static mut without a lock: a thread reads and writes them in steps  *)
(* of its own, and Option::take is a read of the slot followed by a write  *)
(* of None.                                                                *)
(***************************************************************************)
Threads == {1, 2}

\* An Option that keeps what it holds.
replace_dropped(slot, value) == slot

\* Option::replace
replace(slot, value) == Some(value)

\* The state after exec_app mapped the user stack and loaded the segment.
Loaded(m, segment) ==
    At(map_range(EmptyPageTable,
                 range_pages(containing_address(USER_STACK_OFFSET),
                             containing_address(USER_STACK_OFFSET + USER_STACK_SIZE - 256)),
                 {PRESENT, WRITABLE, USER_ACCESSIBLE}, {USER_ACCESSIBLE}, m, 0, FALSE),
       LAMBDA st :
          [stack |-> st, segment |-> map_user_segment(st.pt, 0, segment, m, st.next)])

NoLocals ==
    [len |-> 0, virt_start_addr |-> 0, pages |-> <<>>, taken |-> None,
     frame_allocator |-> None, mapper |-> None, ret |-> 0, sum |-> 0]

InitMmap ==
    /\ memory_map \in UserMaps
    /\ map_op = [name |-> "sort", region |-> MemoryRegion_empty, ok |-> TRUE, before |-> NoCall]
    /\ map_calls = 0
    /\ NoVm
    /\ NoGuest
    /\ pc = [t \in Threads |-> "idle"]
    /\ locals = [t \in Threads |-> NoLocals]
    /\ \E segment \in {g \in Segments : g.type = "Load" /\ g.write /\ ~g.execute} :
       \E x \in {Loaded(memory_map, segment)} :
          /\ x.stack.result.ok
          /\ x.segment.result.ok
          /\ page_table = x.segment.pt
          /\ NEXT_MMAP = x.segment.NEXT_MMAP
          /\ FRAME_ALLOCATOR = Some([next |-> x.segment.next])
    /\ MAPPER = Some("OffsetPageTable")
    /\ machine = [mode |-> "user", at_random |-> [i \in 1..16 |-> 0]]

\* A step of thread t inside mmap_user that touches its locals and pc only.
Goto(t, to, new_locals) ==
    /\ pc' = [pc EXCEPT ![t] = to]
    /\ locals' = [locals EXCEPT ![t] = new_locals]

\* mmap_user(len): virt_start_addr = VirtAddr::new(NEXT_MMAP); page_range
MmapEnter(t) ==
    /\ pc[t] = "idle"
    /\ \E len \in MmapLens :
          /\ NEXT_MMAP + len <= USER_STACK_OFFSET
          /\ Goto(t, "take_frame_allocator",
                  [locals[t] EXCEPT
                      !.len = len,
                      !.virt_start_addr = NEXT_MMAP,
                      !.pages = range_pages(containing_address(NEXT_MMAP),
                                            containing_address(NEXT_MMAP + len - 1))])
    /\ UNCHANGED <<mapVars, vmVars, syscallVars, guestVars, page_table, NEXT_MMAP,
                   FRAME_ALLOCATOR, MAPPER, machine>>

\* FRAME_ALLOCATOR.take(): the read of the slot
TakeFrameAllocatorRead(t) ==
    /\ pc[t] = "take_frame_allocator"
    /\ Goto(t, "unwrap_frame_allocator", [locals[t] EXCEPT !.taken = FRAME_ALLOCATOR])
    /\ UNCHANGED <<mapVars, vmVars, syscallVars, guestVars, page_table, NEXT_MMAP,
                   FRAME_ALLOCATOR, MAPPER, machine>>

\* FRAME_ALLOCATOR.take().unwrap(): the write of None, and the unwrap
TakeFrameAllocatorWrite(t) ==
    /\ pc[t] = "unwrap_frame_allocator"
    /\ FRAME_ALLOCATOR' = None
    /\ Goto(t, IF locals[t].taken.some THEN "take_mapper" ELSE "panic_none",
            [locals[t] EXCEPT !.frame_allocator = locals[t].taken, !.taken = None])
    /\ UNCHANGED <<mapVars, vmVars, syscallVars, guestVars, page_table, NEXT_MMAP,
                   MAPPER, machine>>

\* MAPPER.take(): the read of the slot
TakeMapperRead(t) ==
    /\ pc[t] = "take_mapper"
    /\ Goto(t, "unwrap_mapper", [locals[t] EXCEPT !.taken = MAPPER])
    /\ UNCHANGED <<mapVars, vmVars, syscallVars, guestVars, page_table, NEXT_MMAP,
                   FRAME_ALLOCATOR, MAPPER, machine>>

\* MAPPER.take().unwrap(): the write of None, and the unwrap
TakeMapperWrite(t) ==
    /\ pc[t] = "unwrap_mapper"
    /\ MAPPER' = None
    /\ Goto(t, IF ~locals[t].taken.some THEN "panic_none"
               ELSE IF locals[t].pages = <<>> THEN "ret" ELSE "map",
            [locals[t] EXCEPT !.mapper = locals[t].taken, !.taken = None])
    /\ UNCHANGED <<mapVars, vmVars, syscallVars, guestVars, page_table, NEXT_MMAP,
                   FRAME_ALLOCATOR, machine>>

\* for page in page_range: allocate_frame().unwrap(), map_to(..).or_else(..).unwrap()
MmapMapPage(t) ==
    /\ pc[t] = "map"
    /\ \E x \in {map_page(page_table, Head(locals[t].pages),
                           {PRESENT, WRITABLE, USER_ACCESSIBLE}, {USER_ACCESSIBLE},
                           memory_map, locals[t].frame_allocator.v.next)} :
       LET passed == x.result.ok \/ x.result = Err("PageAlreadyMapped")
       IN  /\ page_table' = x.pt
           /\ Goto(t, IF ~passed THEN "panic"
                      ELSE IF Tail(locals[t].pages) = <<>> THEN "ret" ELSE "map",
                   [locals[t] EXCEPT !.frame_allocator = Some([next |-> x.next]),
                                     !.pages = Tail(@)])
    /\ UNCHANGED <<mapVars, vmVars, syscallVars, guestVars, NEXT_MMAP,
                   FRAME_ALLOCATOR, MAPPER, machine>>

\* ret = NEXT_MMAP as *mut u8
MmapRet(t) ==
    /\ pc[t] = "ret"
    /\ Goto(t, "add", [locals[t] EXCEPT !.ret = NEXT_MMAP])
    /\ UNCHANGED <<mapVars, vmVars, syscallVars, guestVars, page_table, NEXT_MMAP,
                   FRAME_ALLOCATOR, MAPPER, machine>>

\* NEXT_MMAP += len: the read
MmapAddRead(t) ==
    /\ pc[t] = "add"
    /\ Goto(t, "store", [locals[t] EXCEPT !.sum = NEXT_MMAP + locals[t].len])
    /\ UNCHANGED <<mapVars, vmVars, syscallVars, guestVars, page_table, NEXT_MMAP,
                   FRAME_ALLOCATOR, MAPPER, machine>>

\* NEXT_MMAP += len: the write
MmapAddWrite(t) ==
    /\ pc[t] = "store"
    /\ NEXT_MMAP' = locals[t].sum
    /\ Goto(t, "replace_frame_allocator", locals[t])
    /\ UNCHANGED <<mapVars, vmVars, syscallVars, guestVars, page_table,
                   FRAME_ALLOCATOR, MAPPER, machine>>

\* FRAME_ALLOCATOR.replace(frame_allocator)
ReplaceFrameAllocator(t) ==
    /\ pc[t] = "replace_frame_allocator"
    /\ FRAME_ALLOCATOR' = replace(FRAME_ALLOCATOR, locals[t].frame_allocator.v)
    /\ Goto(t, "replace_mapper", [locals[t] EXCEPT !.frame_allocator = None])
    /\ UNCHANGED <<mapVars, vmVars, syscallVars, guestVars, page_table, NEXT_MMAP,
                   MAPPER, machine>>

\* MAPPER.replace(mapper); ret
ReplaceMapper(t) ==
    /\ pc[t] = "replace_mapper"
    /\ MAPPER' = replace(MAPPER, locals[t].mapper.v)
    /\ Goto(t, "returned", [locals[t] EXCEPT !.mapper = None])
    /\ UNCHANGED <<mapVars, vmVars, syscallVars, guestVars, page_table, NEXT_MMAP,
                   FRAME_ALLOCATOR, machine>>

NextMmap ==
    \E t \in Threads :
        \/ MmapEnter(t)
        \/ TakeFrameAllocatorRead(t) \/ TakeFrameAllocatorWrite(t)
        \/ TakeMapperRead(t) \/ TakeMapperWrite(t)
        \/ MmapMapPage(t)
        \/ MmapRet(t) \/ MmapAddRead(t) \/ MmapAddWrite(t)
        \/ ReplaceFrameAllocator(t) \/ ReplaceMapper(t)

SpecMmap == InitMmap /\ [][NextMmap]_vars

\* Thread t is the only one that called mmap_user so far.
SingleCaller(t) == \A u \in Threads \ {t} : pc[u] = "idle"

(***************************************************************************)
(* C30: with a single caller, mmap_user finds both statics in their slots  *)
(* and both hold their values again when it returns.  With two callers     *)
(* there are interleavings in which a caller finds FRAME_ALLOCATOR or      *)
(* MAPPER removed, a fatal unwrap of None, and interleavings in which both *)
(* callers are returned the same address: the states of C30_Witness and    *)
(* of C30_FoundRemoved.                                                    *)
(***************************************************************************)
C30_SingleCallerRestoresTheStatics ==
    [][\A t \in Threads :
          SingleCaller(t)
             => /\ pc'[t] # "panic_none"
                /\ (pc[t] # "returned" /\ pc'[t] = "returned")
                      => /\ FRAME_ALLOCATOR'.some
                         /\ MAPPER' = Some("OffsetPageTable")
                         /\ locals'[t].ret = locals'[t].virt_start_addr
                         /\ NEXT_MMAP' = locals'[t].ret + locals'[t].len]_vars

\* Both callers returned, with the same address.
C30_Witness ==
    /\ pc[1] = "returned" /\ pc[2] = "returned"
    /\ locals[1].ret = locals[2].ret

\* A caller found a static removed while the other was inside mmap_user.
C30_FoundRemoved ==
    \E t \in Threads : pc[t] = "panic_none"

====
